---------------------------- MODULE Spec2Model ----------------------------
(***************************************************************************)
(* A model of the composition core of ai-music-producer:                   *)
(*   server/models/harmony_suggester.py  HarmonySuggester                   *)
(*   server/models/melody_generator.py   MelodyGenerator                    *)
(*   server/models/beat_generator.py     BeatGenerator                      *)
(*   server/models/song_generator.py     WholeSongGenerator                 *)
(*   server/audio/combiner.py            AudioCombiner                      *)
(*   server/audio/processor.py           AudioProcessor                     *)
(*                                                                         *)
(* Every generator is a stateless object; a call is one action.  The       *)
(* arguments of a call and the outcomes of its random draws are chosen in  *)
(* the initial state, the action computes the returned value as the code   *)
(* does.  Each component has a specification of its own (SpecHarmony,      *)
(* SpecChord, ...); the variables of the other components stay idle.       *)
(*                                                                         *)
(* Python strings are TLA+ strings, Python lists are sequences (1-based),  *)
(* Python floats are exact rationals written as scaled integers; the       *)
(* scale is stated where it is used.                                       *)
(***************************************************************************)
EXTENDS Integers, Sequences, FiniteSets, TLC

VARIABLES
    pc,            \* position of the call under way
    harmonyArgs,   \* arguments of HarmonySuggester.suggest
    suggestions,   \* its returned list
    chordArgs,     \* arguments of MelodyGenerator._get_chord_notes
    chordNotes,    \* its returned list
    chordAudio,    \* the tones AudioProcessor._generate_chord_audio has summed
    beatArgs,      \* arguments of BeatGenerator.generate
    beatPattern,   \* its returned grid
    durArgs,       \* arguments and draws of MelodyGenerator._generate_durations
    durState,      \* its locals: durations, current_beat, attempts
    melodyArgs,    \* arguments and draws of MelodyGenerator.generate
    melody,        \* its returned record
    songArgs,      \* arguments and draws of WholeSongGenerator.generate_whole_song
    songHeap,      \* the dictionaries and lists the song calls have created
    baseSong,      \* reference of the returned song, 0 before the return
    songVariations, \* num_variations and the references of the returned variations
    combineArgs,   \* the two loaded tracks and mix_levels of AudioCombiner.combine
    combined,      \* the array it writes, or that it raised
    renderArgs,    \* pattern and tempo of AudioProcessor.pattern_to_audio
    drumSoundCalls, \* number of calls of _generate_drum_sound since construction
    rendered,      \* the arrays the render calls have written, in call order
    midiArgs,      \* melody_data and tempo of AudioProcessor.melody_to_midi
    midiTrack,     \* the messages of the saved track, or that the call raised
    midiAudio,     \* the notes AudioProcessor.midi_to_audio has written
    sectionArgs,   \* a section of a song and the draws of its render
    sectionAudio,  \* what AudioProcessor.song_to_audio adds to its buffer for it
    previewArgs,   \* the request of the suggest_harmony handler
    clock,         \* datetime.now(), in half seconds
    files,         \* the files of ./temp: what was last written to each path
    previews,      \* the previews the handler has collected
    db_module,     \* which database.py is loaded, and DATABASE_NAME
    client,        \* the module's global client: None or <<number of a client>>
    database,      \* the module's global database: None or <<client, name>>
    opened,        \* the clients that were created and not closed
    created,       \* how many clients were created so far
    handle,        \* what the last call of get_database returned
    indexes,       \* the collections of the server that have their index
    mixArgs,       \* track_paths and mix_levels of mix_multiple_tracks
    mixed          \* what mix_multiple_tracks has mixed and written

vars == <<pc, harmonyArgs, suggestions, chordArgs, chordNotes, chordAudio, beatArgs,
         beatPattern, durArgs, durState, melodyArgs, melody, songArgs, songHeap,
         baseSong, songVariations, combineArgs, combined, renderArgs, drumSoundCalls,
         rendered, midiArgs, midiTrack, midiAudio, sectionArgs, sectionAudio,
         previewArgs, clock, files, previews,
         db_module, client, database, opened, created, handle, indexes,
         mixArgs, mixed>>

---------------------------------------------------------------------------
(* Python built-ins used by the code.                                      *)

\* str.replace(old, ""): every non-overlapping occurrence, left to right.
RECURSIVE str_remove(_, _)
str_remove(s, old) ==
    IF Len(s) < Len(old) THEN s
    ELSE IF SubSeq(s, 1, Len(old)) = old
         THEN str_remove(SubSeq(s, Len(old) + 1, Len(s)), old)
         ELSE SubSeq(s, 1, 1) \o str_remove(SubSeq(s, 2, Len(s)), old)

\* "old in s" for strings.
RECURSIVE str_contains(_, _)
str_contains(s, old) ==
    IF Len(s) < Len(old) THEN FALSE
    ELSE IF SubSeq(s, 1, Len(old)) = old THEN TRUE
         ELSE str_contains(SubSeq(s, 2, Len(s)), old)

\* str.lower() on one character.
lower_char(c) ==
    CASE c = "A" -> "a" [] c = "B" -> "b" [] c = "C" -> "c" [] c = "D" -> "d"
      [] c = "E" -> "e" [] c = "F" -> "f" [] c = "G" -> "g" [] c = "H" -> "h"
      [] c = "I" -> "i" [] c = "J" -> "j" [] c = "K" -> "k" [] c = "L" -> "l"
      [] c = "M" -> "m" [] c = "N" -> "n" [] c = "O" -> "o" [] c = "P" -> "p"
      [] c = "Q" -> "q" [] c = "R" -> "r" [] c = "S" -> "s" [] c = "T" -> "t"
      [] c = "U" -> "u" [] c = "V" -> "v" [] c = "W" -> "w" [] c = "X" -> "x"
      [] c = "Y" -> "y" [] c = "Z" -> "z" [] OTHER -> c

RECURSIVE str_lower(_)
str_lower(s) ==
    IF Len(s) = 0 THEN s
    ELSE lower_char(SubSeq(s, 1, 1)) \o str_lower(SubSeq(s, 2, Len(s)))

\* str.startswith(prefix)
str_startswith(s, prefix) ==
    Len(prefix) <= Len(s) /\ SubSeq(s, 1, Len(prefix)) = prefix

\* "x in list"
list_contains(list, x) == \E k \in 1..Len(list) : list[k] = x

\* len(set(list))
count_distinct(list) == Cardinality({list[k] : k \in 1..Len(list)})

\* "if reference:" is false for None and for an empty dict; both are the
\* record without fields.
NoReference == << >>
ref_has(reference, field) == field \in DOMAIN reference
ref_get(reference, field, default) ==
    IF field \in DOMAIN reference THEN reference[field] ELSE default

Min2(a, b) == IF a <= b THEN a ELSE b
Max2(a, b) == IF a >= b THEN a ELSE b
Abs(a) == IF a >= 0 THEN a ELSE 0 - a

---------------------------------------------------------------------------
(* HarmonySuggester                                                        *)

\* self.progressions; a genre or a mood that is no key yields << >>.
progressions(genre, mood) ==
    CASE genre = "pop" /\ mood = "happy" ->
           << <<"I", "V", "vi", "IV">>,
              <<"I", "vi", "IV", "V">>,
              <<"I", "IV", "V", "I">>,
              <<"I", "iii", "vi", "IV">> >>
      [] genre = "pop" /\ mood = "sad" ->
           << <<"vi", "IV", "I", "V">>,
              <<"i", "VII", "iv", "i">>,
              <<"vi", "ii", "V", "I">>,
              <<"i", "iv", "VII", "III">> >>
      [] genre = "jazz" /\ mood = "happy" ->
           << <<"IMaj7", "vi7", "ii7", "V7">>,
              <<"IMaj7", "VII7", "IIIMaj7", "VI7">>,
              <<"IMaj7", "ii7", "V7", "IMaj7">>,
              <<"IMaj7", "IV7", "iii7", "vi7">> >>
      [] genre = "jazz" /\ mood = "sad" ->
           << <<"i7", "iv7", "VII7", "IIIMaj7">>,
              <<"i7", "ii°7", "V7", "i7">>,
              <<"vi7", "ii7", "V7", "IMaj7">>,
              <<"i7", "iv7", "i7", "V7">> >>
      [] genre = "rock" /\ mood = "happy" ->
           << <<"I", "IV", "V", "I">>,
              <<"I", "V", "IV", "I">>,
              <<"I", "bVII", "IV", "I">>,
              <<"I", "vi", "IV", "V">> >>
      [] genre = "rock" /\ mood = "sad" ->
           << <<"i", "bVII", "bVI", "V">>,
              <<"i", "iv", "i", "V">>,
              <<"vi", "IV", "I", "V">>,
              <<"i", "bIII", "bVII", "i">> >>
      [] OTHER -> << >>

progression_genres == {"pop", "jazz", "rock"}
progression_moods == {"happy", "sad"}

\* self.chord_colors.get(symbol, "#888")
chord_colors(symbol) ==
    CASE symbol = "I"    -> "#4CAF50"
      [] symbol = "ii"   -> "#2196F3"
      [] symbol = "iii"  -> "#9C27B0"
      [] symbol = "IV"   -> "#FF9800"
      [] symbol = "V"    -> "#F44336"
      [] symbol = "vi"   -> "#795548"
      [] symbol = "vii°" -> "#607D8B"
      [] OTHER           -> "#888"

\* _get_progression_description
get_progression_description(progression) ==
    IF progression = <<"I", "V", "vi", "IV">>
    THEN "The 'pop progression' - used in countless hit songs"
    ELSE IF progression = <<"I", "vi", "IV", "V">>
    THEN "Classic '50s progression - doo-wop style"
    ELSE IF progression = <<"i", "bVII", "bVI", "V">>
    THEN "Andalusian cadence - dramatic and powerful"
    ELSE IF list_contains(progression, "ii7") /\ list_contains(progression, "V7")
    THEN "Jazz ii-V-I movement - sophisticated and smooth"
    ELSE "A compelling progression with strong voice leading"

\* while len(extended_prog) < bars: extended_prog.extend(prog)
RECURSIVE extend_progression(_, _, _)
extend_progression(extended_prog, prog, bars) ==
    IF Len(extended_prog) < bars
    THEN extend_progression(extended_prog \o prog, prog, bars)
    ELSE extended_prog

\* extended_prog[:bars] for bars >= 0
list_prefix(list, n) == SubSeq(list, 1, Min2(n, Len(list)))

\* The dictionary appended to suggestions for one template.
suggestion_entry(prog, key, bars) ==
    LET extended_prog == list_prefix(extend_progression(<< >>, prog, bars), bars)
        unique_chords == count_distinct(extended_prog)
        has_dominant  == list_contains(extended_prog, "V")
                           \/ list_contains(extended_prog, "V7")
    IN  [ chords      |-> extended_prog,
          key         |-> key,
          score       |-> unique_chords * 20 + (IF has_dominant THEN 30 ELSE 0),
          colors      |-> [ k \in 1..Len(extended_prog) |->
                              chord_colors(str_remove(str_remove(str_remove(
                                  extended_prog[k], "Maj7"), "7"), "°")) ],
          description |-> get_progression_description(extended_prog) ]

\* A mutant of the sort: ties come out in reverse template order (what
\* sorting ascending and reversing the list would do).
RECURSIVE sort_ties_reversed(_)
sort_ties_reversed(list) ==
    IF Len(list) = 0 THEN list
    ELSE LET rest == sort_ties_reversed(Tail(list))
             x    == Head(list)
             n    == Cardinality({k \in 1..Len(rest) : rest[k].score >= x.score})
         IN  SubSeq(rest, 1, n) \o <<x>> \o SubSeq(rest, n + 1, Len(rest))

\* suggestions.sort(key=lambda x: x["score"], reverse=True): Python's sort is
\* stable, also with reverse=True, so an entry goes behind every entry of the
\* rest whose score is greater, and before the later entries of equal score.
RECURSIVE sort_by_score_desc(_)
sort_by_score_desc(list) ==
    IF Len(list) = 0 THEN list
    ELSE LET rest == sort_by_score_desc(Tail(list))
             x    == Head(list)
             n    == Cardinality({k \in 1..Len(rest) : rest[k].score > x.score})
         IN  SubSeq(rest, 1, n) \o <<x>> \o SubSeq(rest, n + 1, Len(rest))

\* HarmonySuggester.suggest
suggest(key, genre, mood, bars) ==
    LET genre1 == IF genre \notin progression_genres THEN "pop" ELSE genre
        mood1  == IF mood \notin progression_moods THEN "happy" ELSE mood
        base_progressions == progressions(genre1, mood1)
    IN  sort_by_score_desc([ t \in 1..Len(base_progressions) |->
                               suggestion_entry(base_progressions[t], key, bars) ])

---------------------------------------------------------------------------
(* MelodyGenerator: the theory tables and the chord lookup.                *)

\* A mutant of the key table: an unknown key is taken for D.
note_to_midi_default_d(key) ==
    CASE key = "C"  -> 60 [] key = "C#" -> 61 [] key = "D"  -> 62
      [] key = "D#" -> 63 [] key = "E"  -> 64 [] key = "F"  -> 65
      [] key = "F#" -> 66 [] key = "G"  -> 67 [] key = "G#" -> 68
      [] key = "A"  -> 69 [] key = "A#" -> 70 [] key = "B"  -> 71
      [] OTHER      -> 62

\* self.note_to_midi.get(key, 60)
note_to_midi(key) ==
    CASE key = "C"  -> 60 [] key = "C#" -> 61 [] key = "D"  -> 62
      [] key = "D#" -> 63 [] key = "E"  -> 64 [] key = "F"  -> 65
      [] key = "F#" -> 66 [] key = "G"  -> 67 [] key = "G#" -> 68
      [] key = "A"  -> 69 [] key = "A#" -> 70 [] key = "B"  -> 71
      [] OTHER      -> 60

\* self.scale_intervals.get(scale, self.scale_intervals["major"])
scale_intervals(scale) ==
    CASE scale = "major"      -> <<0, 2, 4, 5, 7, 9, 11>>
      [] scale = "minor"      -> <<0, 2, 3, 5, 7, 8, 10>>
      [] scale = "dorian"     -> <<0, 2, 3, 5, 7, 9, 10>>
      [] scale = "phrygian"   -> <<0, 1, 3, 5, 7, 8, 10>>
      [] scale = "lydian"     -> <<0, 2, 4, 6, 7, 9, 11>>
      [] scale = "mixolydian" -> <<0, 2, 4, 5, 7, 9, 10>>
      [] scale = "aeolian"    -> <<0, 2, 3, 5, 7, 8, 10>>
      [] scale = "locrian"    -> <<0, 1, 3, 5, 6, 8, 10>>
      [] OTHER                -> <<0, 2, 4, 5, 7, 9, 11>>

\* roman_to_interval.get(chord_clean, 0)
roman_to_interval(chord_clean) ==
    CASE chord_clean \in {"I", "i"}     -> 0
      [] chord_clean \in {"II", "ii"}   -> 2
      [] chord_clean \in {"III", "iii"} -> 4
      [] chord_clean \in {"IV", "iv"}   -> 5
      [] chord_clean \in {"V", "v"}     -> 7
      [] chord_clean \in {"VI", "vi"}   -> 9
      [] chord_clean \in {"VII", "vii"} -> 11
      [] chord_clean = "bII"            -> 1
      [] chord_clean = "bIII"           -> 3
      [] chord_clean = "bV"             -> 6
      [] chord_clean = "bVI"            -> 8
      [] chord_clean = "bVII"           -> 10
      [] OTHER                          -> 0

\* chord.replace("Maj7", "").replace("7", "").replace("°", "").replace("m", "")
clean_chord(chord) ==
    str_remove(str_remove(str_remove(str_remove(chord, "Maj7"), "7"), "°"), "m")

\* The triad chosen by "Determine chord quality": the minor test comes first,
\* the diminished test is its elif.
chord_quality(chord) ==
    LET chord_clean == clean_chord(chord)
    IN  IF str_startswith(chord, str_lower(chord_clean)) /\ chord_clean # "V"
        THEN <<0, 3, 7>>
        ELSE IF str_contains(chord, "°")
        THEN <<0, 3, 6>>
        ELSE <<0, 4, 7>>

\* "Add 7th if specified"
chord_seventh(chord) ==
    IF str_contains(chord, "7")
    THEN IF str_contains(chord, "Maj7") THEN <<11>> ELSE <<10>>
    ELSE << >>

\* MelodyGenerator._get_chord_notes
get_chord_notes(chord, key) ==
    LET chord_root == key + roman_to_interval(clean_chord(chord))
        intervals  == chord_quality(chord) \o chord_seventh(chord)
    IN  [ k \in 1..Len(intervals) |-> chord_root + intervals[k] ]

---------------------------------------------------------------------------
(* MelodyGenerator: durations and notes.  A duration is written in quarter *)
(* beats (0.25 is 1, 0.5 is 2, 0.75 is 3, 1.0 is 4).                        *)

beats_per_bar == 4
beat_unit == 4
max_attempts == 20

\* self.rhythm_patterns.get(genre, self.rhythm_patterns["default"])
rhythm_patterns(genre) ==
    CASE genre = "jazz" ->
           << <<3, 1, 4, 2, 2, 4>>,
              <<4, 2, 1, 1, 4, 2, 2>>,
              <<2, 2, 2, 2, 3, 1, 4>> >>
      [] genre = "electronic" ->
           << <<1, 1, 1, 1, 2, 2, 2, 2>>,
              <<2, 2, 2, 2, 1, 1, 1, 1>>,
              <<4, 2, 2, 1, 1, 1, 1>> >>
      [] genre = "hip-hop" ->
           << <<2, 2, 4, 2, 2, 4>>,
              <<1, 1, 2, 4, 2, 2, 2>>,
              <<4, 2, 2, 2, 2, 4>> >>
      [] genre = "rock" ->
           << <<2, 2, 2, 2, 2, 2, 2, 2>>,
              <<4, 4, 2, 2, 4, 4>>,
              <<2, 2, 4, 4, 2, 2>> >>
      [] OTHER ->
           << <<2, 2, 2, 2, 2, 2, 2, 2>>,
              <<4, 2, 2, 4, 2, 2, 4>>,
              <<1, 1, 2, 4, 2, 2, 2>>,
              <<4, 4, 2, 2, 4, 4>> >>

\* _generate_durations, lines 124-130
durations_patterns(reference) ==
    IF ref_has(reference, "genre")
    THEN rhythm_patterns(reference["genre"])
    ELSE rhythm_patterns("default")

\* The for loop over one drawn pattern, lines 140-150, from its k-th duration
\* on; st is [durations, current_beat].  "remaining > 0.1" is remaining >= 1
\* quarter beat.
RECURSIVE durations_for_pattern(_, _, _, _)
durations_for_pattern(st, rhythm, k, total_beats) ==
    IF k > Len(rhythm) THEN st
    ELSE IF st.current_beat + rhythm[k] <= total_beats
    THEN durations_for_pattern(
             [ durations    |-> Append(st.durations, rhythm[k]),
               current_beat |-> st.current_beat + rhythm[k] ],
             rhythm, k + 1, total_beats)
    ELSE LET remaining == total_beats - st.current_beat
         IN  [ durations    |-> IF remaining >= 1
                                THEN Append(st.durations, remaining)
                                ELSE st.durations,
               current_beat |-> total_beats ]

\* The pattern random.choice returns at an attempt: the draws of a call are
\* the tape, read round and round.
drawn_index(tape, attempts) == tape[(attempts % Len(tape)) + 1]

\* The while loop, lines 137-152.
RECURSIVE durations_while(_, _, _, _, _)
durations_while(st, attempts, total_beats, patterns, tape) ==
    IF st.current_beat < total_beats /\ attempts < max_attempts
    THEN durations_while(
             durations_for_pattern(st, patterns[drawn_index(tape, attempts)], 1,
                                   total_beats),
             attempts + 1, total_beats, patterns, tape)
    ELSE st

\* "if not durations: durations = [0.5] * (bars * 8)"
durations_or_fallback(durations, bars) ==
    IF Len(durations) = 0 THEN [ k \in 1..(bars * 8) |-> 2 ] ELSE durations

\* MelodyGenerator._generate_durations
generate_durations(bars, reference, tape) ==
    LET total_beats == beats_per_bar * bars * beat_unit
        st == durations_while([durations |-> << >>, current_beat |-> 0], 0,
                              total_beats, durations_patterns(reference), tape)
    IN  durations_or_fallback(st.durations, bars)

\* sum(list): the sum of list[lo..hi], by halves.
RECURSIVE sum_range(_, _, _)
sum_range(list, lo, hi) ==
    IF lo > hi THEN 0
    ELSE IF lo = hi THEN list[lo]
    ELSE sum_range(list, lo, (lo + hi) \div 2)
         + sum_range(list, ((lo + hi) \div 2) + 1, hi)

sum_list(list) == sum_range(list, 1, Len(list))

\* list.sort() on integers
RECURSIVE sort_asc(_)
sort_asc(list) ==
    IF Len(list) = 0 THEN list
    ELSE LET rest == sort_asc(Tail(list))
             x    == Head(list)
             n    == Cardinality({k \in 1..Len(rest) : rest[k] < x})
         IN  SubSeq(rest, 1, n) \o <<x>> \o SubSeq(rest, n + 1, Len(rest))

\* list.index(x), 0-based; the caller has checked that x is in the list.
list_index(list, x) == (CHOOSE k \in 1..Len(list) :
                           list[k] = x /\ \A m \in 1..(k - 1) : list[m] # x) - 1

\* min(candidates, key=lambda x: abs(x - target)): the first of the nearest.
nearest(candidates, target) ==
    candidates[CHOOSE k \in 1..Len(candidates) :
                 /\ \A m \in 1..Len(candidates) :
                      Abs(candidates[k] - target) <= Abs(candidates[m] - target)
                 /\ \A m \in 1..(k - 1) :
                      Abs(candidates[m] - target) > Abs(candidates[k] - target)]

\* generate, lines 65-75: the scale over three octaves within [48, 84], sorted.
extended_scale(root_midi, scale) ==
    LET scale_notes == [ k \in 1..7 |-> root_midi + scale_intervals(scale)[k] ]
        octave(o)   == [ k \in 1..7 |-> scale_notes[k] + 12 * o ]
        extended    == octave(0 - 1) \o octave(0) \o octave(1)
        in_range(n) == 48 <= n /\ n <= 84
    IN  sort_asc(SelectSeq(extended, in_range))

\* A draw of the "regular melodic movement": random.random() < 0.7 with the
\* direction of random.choices, or a leap with its two random.choice results.
Moves ==
    { [kind |-> "step", direction |-> d, interval |-> 0] : d \in {0 - 1, 0, 1} }
    \cup { [kind |-> "leap", direction |-> d, interval |-> v]
             : d \in {0 - 1, 1}, v \in {3, 4, 5, 8} }

\* _stepwise_movement
stepwise_movement(current_note, scale_notes, drawn_direction) ==
    LET note == IF list_contains(scale_notes, current_note) THEN current_note
                ELSE nearest(scale_notes, current_note)
        current_idx == list_index(scale_notes, note)
        direction == IF current_idx <= 1 THEN 1
                     ELSE IF current_idx >= Len(scale_notes) - 2 THEN 0 - 1
                     ELSE drawn_direction
        new_idx == Max2(0, Min2(current_idx + direction, Len(scale_notes) - 1))
    IN  scale_notes[new_idx + 1]

\* _leap_movement
leap_movement(current_note, scale_notes, direction, interval) ==
    nearest(scale_notes, current_note + interval * direction)

\* _generate_melody_notes, lines 172-177
starting_note(scale_notes, root) ==
    IF list_contains(scale_notes, root) THEN root
    ELSE IF list_contains(scale_notes, root + 7) THEN root + 7
    ELSE scale_notes[1]

\* The body of the loop of _generate_melody_notes for index i (from 0),
\* lines 185-207: the note appended.
next_note(i, current_note, scale_notes, chord_progression, root, move) ==
    LET is_strong_beat == i % 4 = 0
        is_phrase_end  == (i + 1) % 8 = 0
        in_stable(n)   == (n - root) % 12 \in {0, 4, 7}
        stable_notes   == SelectSeq(scale_notes, in_stable)
    IN  IF is_phrase_end
        THEN IF Len(stable_notes) > 0 THEN nearest(stable_notes, current_note)
             ELSE current_note
        ELSE IF is_strong_beat /\ Len(chord_progression) > 0
        THEN LET chord_idx   == (i \div 4) % Len(chord_progression)
                 chord_notes == get_chord_notes(chord_progression[chord_idx + 1], root)
                 in_scale(n) == list_contains(scale_notes, n)
                 valid_chord_notes == SelectSeq(chord_notes, in_scale)
             IN  IF Len(valid_chord_notes) > 0
                 THEN nearest(valid_chord_notes, current_note)
                 ELSE current_note
        ELSE IF move.kind = "step"
        THEN stepwise_movement(current_note, scale_notes, move.direction)
        ELSE leap_movement(current_note, scale_notes, move.direction, move.interval)

\* The loop of _generate_melody_notes from index i up to index stop; moves is
\* the tape of the call's draws, read round and round by the index.  (The
\* test of the length, always true, has the list evaluated at every turn.)
RECURSIVE melody_turns(_, _, _, _, _, _, _, _)
melody_turns(notes, i, stop, current_note, scale_notes, chord_progression, root, moves) ==
    IF i >= stop THEN notes
    ELSE LET note == next_note(i, current_note, scale_notes, chord_progression,
                               root, moves[(i % Len(moves)) + 1])
             appended == Append(notes, note)
         IN  IF Len(appended) = i + 1
             THEN melody_turns(appended, i + 1, stop, note, scale_notes,
                               chord_progression, root, moves)
             ELSE appended

\* The loop of _generate_melody_notes from index i on, evaluated sixteen
\* turns at a time.
RECURSIVE melody_loop(_, _, _, _, _, _, _, _)
melody_loop(notes, i, n, current_note, scale_notes, chord_progression, root, moves) ==
    IF i >= n THEN notes
    ELSE LET stop == Min2(n, i + 16)
             turned == melody_turns(notes, i, stop, current_note, scale_notes,
                                    chord_progression, root, moves)
         IN  IF Len(turned) = stop
             THEN melody_loop(turned, stop, n, turned[stop], scale_notes,
                              chord_progression, root, moves)
             ELSE turned

\* A mutant of the post-process: a first leap of more than 7 semitones is
\* large already.
smooth_melody_first_leap_seven(notes, scale_notes) ==
    IF Len(notes) < 3 THEN notes
    ELSE [ k \in 1..Len(notes) |->
             IF k = 1 \/ k = Len(notes) THEN notes[k]
             ELSE LET leap1 == Abs(notes[k] - notes[k - 1])
                      leap2 == Abs(notes[k + 1] - notes[k])
                      better_note == nearest(scale_notes,
                                             (notes[k - 1] + notes[k + 1]) \div 2)
                  IN  IF leap1 > 7 /\ leap2 > 7
                         /\ Abs(better_note - notes[k - 1]) < leap1
                         /\ Abs(notes[k + 1] - better_note) < leap2
                      THEN better_note
                      ELSE notes[k] ]

\* _smooth_melody: every decision reads the notes as they came in.
smooth_melody(notes, scale_notes) ==
    IF Len(notes) < 3 THEN notes
    ELSE [ k \in 1..Len(notes) |->
             IF k = 1 \/ k = Len(notes) THEN notes[k]
             ELSE LET prev_note == notes[k - 1]
                      curr_note == notes[k]
                      next      == notes[k + 1]
                      leap1     == Abs(curr_note - prev_note)
                      leap2     == Abs(next - curr_note)
                      mid_point == (prev_note + next) \div 2
                      better_note == nearest(scale_notes, mid_point)
                  IN  IF leap1 > 12 /\ leap2 > 7
                         /\ Abs(better_note - prev_note) < leap1
                         /\ Abs(next - better_note) < leap2
                      THEN better_note
                      ELSE curr_note ]

\* MelodyGenerator._generate_melody_notes
generate_melody_notes(scale_notes, durations, chord_progression, root, moves) ==
    LET scale1 == IF Len(scale_notes) = 0 THEN <<60, 62, 64, 65, 67, 69, 71>>
                  ELSE scale_notes
        notes  == melody_loop(<< >>, 0, Len(durations), starting_note(scale1, root),
                              scale1, chord_progression, root, moves)
    IN  smooth_melody(notes, scale1)

\* A chord_progression element that is no string (None, a number): its
\* chord.replace raises.
PyNone == "<None>"

\* Whether the try block of generate raises: _get_chord_notes is called for
\* the chord of every strong beat that is no phrase end.
generate_raises(durations, chord_progression) ==
    /\ Len(chord_progression) > 0
    /\ \E i \in 0..(Len(durations) - 1) :
          /\ i % 4 = 0
          /\ (i + 1) % 8 # 0
          /\ chord_progression[((i \div 4) % Len(chord_progression)) + 1] = PyNone

\* A mutant of the fallback: the durations of one bar only.
fallback_melody_one_bar(key, scale, tempo, bars) ==
    LET fallback_notes == [ k \in 1..(8 * bars) |->
                              <<60, 62, 64, 65, 67, 65, 64, 62>>[((k - 1) % 8) + 1] ]
        fallback_durations == [ k \in 1..8 |-> 2 ]
    IN  [ notes |-> fallback_notes, durations |-> fallback_durations,
          key |-> key, scale |-> scale, tempo |-> tempo,
          total_duration |-> sum_list(fallback_durations) ]

\* generate, lines 104-115: the except branch.
fallback_melody(key, scale, tempo, bars) ==
    LET fallback_notes == [ k \in 1..(8 * bars) |->
                              <<60, 62, 64, 65, 67, 65, 64, 62>>[((k - 1) % 8) + 1] ]
        fallback_durations == [ k \in 1..Len(fallback_notes) |-> 2 ]
    IN  [ notes |-> fallback_notes, durations |-> fallback_durations,
          key |-> key, scale |-> scale, tempo |-> tempo,
          total_duration |-> sum_list(fallback_durations) ]

\* MelodyGenerator.generate.  chord_progression None is << >>: the code only
\* tests its truth.  tape holds the rhythm draws, moves the melodic draws.
generate_melody(key, scale, tempo, bars, chord_progression, reference, tape, moves) ==
    LET root_midi == note_to_midi(key)
        scale_notes == extended_scale(root_midi, scale)
        durations == generate_durations(bars, reference, tape)
    IN  IF generate_raises(durations, chord_progression)
        THEN fallback_melody(key, scale, tempo, bars)
        ELSE [ notes |-> generate_melody_notes(scale_notes, durations,
                                               chord_progression, root_midi, moves),
               durations |-> durations,
               key |-> key, scale |-> scale, tempo |-> tempo,
               total_duration |-> sum_list(durations) ]

---------------------------------------------------------------------------
(* BeatGenerator.  A velocity is written in tenths (1.0 is 10, 0.7 is 7,   *)
(* 0.5 is 5), complexity in 1/10000 and a reference's energy in 1/100.     *)
(* Rows and steps are numbered from 0 as in the code.                      *)

steps_per_bar == 16

\* self.drum_mapping
drum_mapping ==
    [ i \in 0..8 |->
        CASE i = 0 -> "kick"       [] i = 1 -> "snare"    [] i = 2 -> "hihat_closed"
          [] i = 3 -> "hihat_open" [] i = 4 -> "crash"    [] i = 5 -> "ride"
          [] i = 6 -> "tom_high"   [] i = 7 -> "tom_mid"  [] i = 8 -> "tom_low" ]

\* self.genre_patterns: a genre's record of voice -> 16 steps.
genre_pattern_names == {"hip-hop", "rock", "jazz", "electronic"}

genre_patterns(genre) ==
    CASE genre = "hip-hop" ->
           [ kick         |-> <<10,0,0,0,10,0,0,0,10,0,0,0,10,0,0,0>>,
             snare        |-> <<0,0,0,0,10,0,0,0,0,0,0,0,10,0,0,0>>,
             hihat_closed |-> <<10,0,10,0,10,0,10,0,10,0,10,0,10,0,10,0>> ]
      [] genre = "rock" ->
           [ kick         |-> <<10,0,0,0,10,0,0,0,10,0,0,0,10,0,0,0>>,
             snare        |-> <<0,0,10,0,0,0,10,0,0,0,10,0,0,0,10,0>>,
             hihat_closed |-> <<10,10,10,10,10,10,10,10,10,10,10,10,10,10,10,10>> ]
      [] genre = "jazz" ->
           [ kick  |-> <<10,0,0,10,0,0,10,0,0,10,0,0,10,0,0,0>>,
             snare |-> <<0,0,10,0,0,10,0,0,10,0,0,10,0,0,10,0>>,
             ride  |-> <<10,0,10,10,0,10,10,0,10,10,0,10,10,0,10,0>> ]
      [] genre = "electronic" ->
           [ kick         |-> <<10,0,0,0,10,0,0,0,10,0,0,0,10,0,0,0>>,
             snare        |-> <<0,0,0,0,10,0,0,0,0,0,0,0,10,0,0,0>>,
             hihat_closed |-> <<0,0,10,0,0,0,10,0,0,0,10,0,0,0,10,0>> ]

\* A mutant of the overrides: the reference's genre is looked up as written.
beat_params_genre_as_written(genre, tempo, complexity, reference) ==
    [ tempo      |-> ref_get(reference, "tempo", tempo),
      genre      |-> IF ref_get(reference, "genre", "") \in genre_pattern_names
                     THEN reference["genre"] ELSE genre,
      complexity |-> IF ref_has(reference, "energy")
                     THEN Min2((complexity * (100 + reference["energy"])) \div 100,
                               10000)
                     ELSE complexity ]

\* generate, lines 73-90: the parameters after the reference's overrides.
beat_params(genre, tempo, complexity, reference) ==
    LET ref_genre == str_lower(ref_get(reference, "genre", ""))
    IN  [ tempo      |-> ref_get(reference, "tempo", tempo),
          genre      |-> IF ref_has(reference, "genre")
                            /\ ref_genre \in genre_pattern_names
                         THEN ref_genre ELSE genre,
          complexity |-> IF ref_has(reference, "energy")
                         THEN Min2((complexity * (100 + reference["energy"])) \div 100,
                                   10000)
                         ELSE complexity ]

\* A mutant of the tiling: the template fills the first bar only.
tile_pattern_first_bar(base_pattern, bars) ==
    LET total_steps == steps_per_bar * bars
    IN  [ i \in DOMAIN drum_mapping |->
          [ j \in 0..(total_steps - 1) |->
              IF drum_mapping[i] \in DOMAIN base_pattern /\ j < steps_per_bar
              THEN base_pattern[drum_mapping[i]][j + 1]
              ELSE 0 ] ]

\* generate, lines 98-113: the template of every voice, bar after bar; a
\* voice the template does not name stays zero.
tile_pattern(base_pattern, bars) ==
    LET total_steps == steps_per_bar * bars
    IN  [ i \in DOMAIN drum_mapping |->
          [ j \in 0..(total_steps - 1) |->
              IF drum_mapping[i] \in DOMAIN base_pattern
              THEN LET drum_pattern == base_pattern[drum_mapping[i]]
                       start_idx    == (j \div steps_per_bar) * steps_per_bar
                   IN  IF j - start_idx < Len(drum_pattern)
                       THEN drum_pattern[(j - start_idx) + 1]
                       ELSE 0
              ELSE 0 ] ]

\* _add_variations, lines 131-149 and 154: variation_prob * 0.1 in units of
\* 1/10^8 (complexity is in 1/10^4; 0.3, the two factors and 0.1 are tenths).
\* reference.get supplies "4/4" and "neutral", whose factor is 1.0.
prob_one == 100000000

variation_prob(complexity, reference) ==
    LET time_sig == ref_get(reference, "time_signature", "4/4")
        mood     == ref_get(reference, "mood", "neutral")
        sig_factor  == IF time_sig = "3/4" THEN 7
                       ELSE IF time_sig = "6/8" THEN 12 ELSE 10
        mood_factor == IF mood \in {"energetic", "happy"} THEN 13
                       ELSE IF mood \in {"sad", "calm"} THEN 7 ELSE 10
    IN  complexity * 3 * sig_factor * mood_factor

\* A mutant of the flip: the velocity is subtracted from nothing.
flip_velocity_unbounded(v) == 0 - v

\* pattern[i, j] = 1 - pattern[i, j]
flip_velocity(v) == 10 - v

\* A mutant of the protection: only the first step of a bar is kept.
protected_cell_first_step(i, j) == i = 0 /\ j % 16 = 0

\* "if i == 0 and j % 16 in [0, 8]: continue"
protected_cell(i, j) == i = 0 /\ j % 16 \in {0, 8}

\* _add_variations.  hits are the cells whose draw fell below the variation
\* probability, ghosts the off-beat steps whose draw fell below 0.3.
add_variations(pattern, complexity, reference, hits, ghosts) ==
    LET total_steps == Cardinality(DOMAIN pattern[0])
        flipped == [ i \in DOMAIN pattern |->
                     [ j \in DOMAIN pattern[i] |->
                         IF <<i, j>> \in hits /\ ~protected_cell(i, j)
                         THEN flip_velocity(pattern[i][j])
                         ELSE pattern[i][j] ] ]
        fill_start == 60
        has_fill == total_steps >= 64 /\ fill_start + 4 <= total_steps
        filled == [ i \in DOMAIN flipped |->
                    [ j \in DOMAIN flipped[i] |->
                        IF has_fill /\ i = 1 /\ j \in fill_start..(fill_start + 3)
                        THEN 10 ELSE flipped[i][j] ] ]
        hihat_idx == 2
    IN  IF complexity > 7000
        THEN [ i \in DOMAIN filled |->
               [ j \in DOMAIN filled[i] |->
                   IF i = hihat_idx /\ j % 2 = 1 /\ j \in ghosts
                   THEN 5 ELSE filled[i][j] ] ]
        ELSE filled

\* _generate_with_nn
generate_with_nn(length, complexity, reference, hits, ghosts) ==
    LET num_bars == length \div steps_per_bar
        ref_genre == ref_get(reference, "genre", "")
        kick_pattern == IF ref_genre = "electronic"
                        THEN <<10,0,0,0,10,0,0,0,10,0,0,0,10,0,0,0>>
                        ELSE IF ref_genre = "jazz"
                        THEN <<10,0,0,10,0,0,10,0,0,10,0,0,10,0,0,0>>
                        ELSE <<10,0,0,0,10,0,0,0,10,0,0,0,10,0,0,0>>
        pattern == [ i \in DOMAIN drum_mapping |->
                     [ j \in 0..(length - 1) |->
                         LET bar_start == (j \div steps_per_bar) * steps_per_bar
                             in_bar    == j \div steps_per_bar < num_bars
                         IN  IF ~in_bar THEN 0
                             ELSE IF i = 0 THEN kick_pattern[(j - bar_start) + 1]
                             ELSE IF i = 1
                             THEN (IF j - bar_start \in {4, 12} THEN 10 ELSE 0)
                             ELSE IF i = 2
                             THEN (IF (j - bar_start) % 2 = 0 THEN 7 ELSE 0)
                             ELSE 0 ] ]
    IN  IF complexity > 5000
        THEN add_variations(pattern, complexity, reference, hits, ghosts)
        ELSE pattern

\* BeatGenerator.generate
generate_beat(genre, tempo, bars, complexity, reference, hits, ghosts) ==
    LET p == beat_params(genre, tempo, complexity, reference)
        total_steps == steps_per_bar * bars
    IN  IF p.genre \in genre_pattern_names
        THEN LET pattern == tile_pattern(genre_patterns(p.genre), bars)
             IN  IF p.complexity > 5000
                 THEN add_variations(pattern, p.complexity, reference, hits, ghosts)
                 ELSE pattern
        ELSE generate_with_nn(total_steps, p.complexity, reference, hits, ghosts)

---------------------------------------------------------------------------
(* WholeSongGenerator.  Dictionaries and lists that the code copies or     *)
(* shares are objects of a heap: the heap is the sequence of their values, *)
(* an object's reference its index.  A time is in seconds; the tempi taken *)
(* divide 240 * 8, so that every time is a whole number (and an exact      *)
(* float in the code).                                                     *)

\* self.song_structures.get(style, self.song_structures["pop"])
song_structures(style) ==
    CASE style = "rock" ->
           <<"intro", "verse", "chorus", "verse", "chorus", "solo", "chorus", "outro">>
      [] style = "hip-hop" ->
           <<"intro", "verse", "hook", "verse", "hook", "verse", "hook", "outro">>
      [] style = "jazz" ->
           <<"intro", "head", "solo1", "solo2", "head", "outro">>
      [] style = "electronic" ->
           <<"intro", "buildup", "drop", "breakdown", "buildup", "drop", "outro">>
      [] OTHER ->
           <<"intro", "verse", "chorus", "verse", "chorus", "bridge", "chorus", "outro">>

\* self.section_configs.get(section_type, self.section_configs["verse"]);
\* complexity in 1/10000, energy in 1/100.
section_configs(section_type) ==
    CASE section_type = "intro"     -> [bars |-> 8,  complexity |-> 3000, energy |-> 40]
      [] section_type = "chorus"    -> [bars |-> 16, complexity |-> 8000, energy |-> 90]
      [] section_type = "hook"      -> [bars |-> 8,  complexity |-> 7000, energy |-> 80]
      [] section_type = "bridge"    -> [bars |-> 8,  complexity |-> 6000, energy |-> 70]
      [] section_type = "solo"      -> [bars |-> 32, complexity |-> 9000, energy |-> 90]
      [] section_type = "buildup"   -> [bars |-> 16, complexity |-> 7000, energy |-> 80]
      [] section_type = "drop"      -> [bars |-> 32, complexity |-> 9000, energy |-> 100]
      [] section_type = "breakdown" -> [bars |-> 16, complexity |-> 3000, energy |-> 50]
      [] section_type = "outro"     -> [bars |-> 8,  complexity |-> 3000, energy |-> 30]
      [] section_type = "head"      -> [bars |-> 32, complexity |-> 6000, energy |-> 70]
      [] section_type = "solo1"     -> [bars |-> 32, complexity |-> 8000, energy |-> 80]
      [] section_type = "solo2"     -> [bars |-> 32, complexity |-> 9000, energy |-> 90]
      [] OTHER                      -> [bars |-> 16, complexity |-> 5000, energy |-> 60]

\* A new object: the heap with the value appended; its reference is the new
\* length.
alloc(heap, value) == Append(heap, value)
new_ref(heap) == Len(heap) + 1

\* substitutions of _add_harmonic_tension; << >> for a chord that is no key.
substitutions(chord) ==
    CASE chord = "I"  -> <<"IMaj7", "I6">>
      [] chord = "V"  -> <<"V7", "V9">>
      [] chord = "vi" -> <<"vi7", "vim7">>
      [] chord = "IV" -> <<"IVMaj7", "IVadd9">>
      [] OTHER        -> << >>

\* A mutant of the tension variant: every position takes the substitutes of
\* the first chord.
add_harmonic_tension_of_first(base_progression, tension) ==
    [ k \in 1..Len(base_progression) |->
        IF Len(substitutions(base_progression[1])) > 0 /\ tension[k] > 0
        THEN substitutions(base_progression[1])[tension[k]]
        ELSE base_progression[k] ]

\* _add_harmonic_tension: the value of the copy.  tension[k] is the outcome of
\* the draws for position k: 0 when random.random() >= 0.3, else the index of
\* the substitute random.choice picks.
add_harmonic_tension(base_progression, tension) ==
    [ k \in 1..Len(base_progression) |->
        IF Len(substitutions(base_progression[k])) > 0 /\ tension[k] > 0
        THEN substitutions(base_progression[k])[tension[k]]
        ELSE base_progression[k] ]

\* The loop of _generate_song_chords from index i on: progs collects the
\* references of the sections' progressions.
RECURSIVE song_chords_loop(_, _, _, _, _, _)
song_chords_loop(heap, progs, i, num_sections, base_prog, tension) ==
    IF i >= num_sections THEN [heap |-> heap, progs |-> progs]
    ELSE IF i = 0 \/ i = num_sections - 1
    THEN LET two == list_prefix(heap[base_prog], 2)
         IN  song_chords_loop(alloc(heap, two \o two), Append(progs, new_ref(heap)),
                              i + 1, num_sections, base_prog, tension)
    ELSE IF i % 2 = 1
    THEN song_chords_loop(heap, Append(progs, base_prog), i + 1, num_sections,
                          base_prog, tension)
    ELSE song_chords_loop(alloc(heap, add_harmonic_tension(heap[base_prog], tension)),
                          Append(progs, new_ref(heap)), i + 1, num_sections,
                          base_prog, tension)

\* WholeSongGenerator._generate_song_chords: [heap, progs].  base_prog is the
\* "chords" list of the first suggestion, or a new fallback list.
generate_song_chords(heap, key, style, num_sections, tension) ==
    LET suggested == suggest(key, style, "happy", 4)
        base_value == IF Len(suggested) = 0 THEN <<"I", "V", "vi", "IV">>
                      ELSE suggested[1].chords
    IN  song_chords_loop(alloc(heap, base_value), << >>, 0, num_sections,
                         new_ref(heap), tension)

\* A mutant of the duration: a bar counted as one beat.
section_duration_per_beat(bars, tempo) == (bars * 60) \div tempo

\* config["bars"] * (240 / tempo)
section_duration(bars, tempo) == (bars * 240) \div tempo

\* A mutant of the stop test: it looks one section ahead.
reached_target_ahead(current_time, duration, total_duration) ==
    current_time + duration >= total_duration

\* A mutant of the stop test: a song that lasts exactly the request goes on.
reached_target_strict(current_time, duration, total_duration) ==
    current_time > total_duration

\* "if current_time >= total_duration: break", current_time being the time
\* after the section of the given duration.
reached_target(current_time, duration, total_duration) ==
    current_time >= total_duration

\* The draws of the beats of a song: none hits, or every one.
song_hits(draws, bars) ==
    IF draws.hits_all THEN (0..8) \X (0..(steps_per_bar * bars - 1)) ELSE {}
song_ghosts(draws, bars) ==
    IF draws.hits_all THEN 0..(steps_per_bar * bars - 1) ELSE {}

\* The section's dictionary of one turn of the loop; melody_ref is the reference
\* of the melody's dictionary.
song_section(section_type, config, current_time, tempo, beat_pattern, melody_ref, section_chords) ==
    [ type |-> section_type,
      start_time |-> current_time,
      duration |-> section_duration(config.bars, tempo),
      beat_pattern |-> beat_pattern,
      melody |-> melody_ref,
      chords |-> section_chords,
      energy |-> config.energy,
      bars |-> config.bars ]

\* sections.append(section); current_time += section["duration"], with the
\* melody's dictionary and the section's put on the heap.
append_section(heap, sections, melody_data, section) ==
    LET heap1 == alloc(heap, melody_data)
        heap2 == alloc(heap1, section)
    IN  [ heap |-> [ heap2 EXCEPT ![sections] = Append(@, new_ref(heap1)) ],
          current_time |-> section.start_time + section.duration,
          duration |-> section.duration ]

\* One turn of the loop of generate_whole_song, up to the stop test.
song_section_turn(heap, sections, i, current_time, structure, chord_progression, style, tempo, key_total, draws) ==
    LET section_type == structure[i + 1]
        config == section_configs(section_type)
        section_chords == chord_progression[(i % Len(chord_progression)) + 1]
    IN  append_section(heap, sections,
            generate_melody(key_total.key,
                            IF style # "jazz" THEN "major" ELSE "minor",
                            tempo, config.bars, heap[section_chords],
                            NoReference, draws.tape, draws.moves),
            song_section(section_type, config, current_time, tempo,
                generate_beat(style, tempo, config.bars, config.complexity,
                              NoReference, song_hits(draws, config.bars),
                              song_ghosts(draws, config.bars)),
                new_ref(heap), section_chords))

RECURSIVE song_sections_loop(_, _, _, _, _, _, _, _, _, _)

\* The stop test after a turn, and the turns that follow it.
song_sections_break(turned, sections, i, structure, chord_progression, style, tempo, key_total, draws) ==
    IF reached_target(turned.current_time, turned.duration, key_total.total_duration)
    THEN [heap |-> turned.heap, current_time |-> turned.current_time]
    ELSE song_sections_loop(turned.heap, sections, i + 1, turned.current_time,
                            structure, chord_progression, style, tempo,
                            key_total, draws)

\* The loop of generate_whole_song from index i on.  sections is the
\* reference of the list the sections are appended to.
song_sections_loop(heap, sections, i, current_time, structure, chord_progression, style, tempo, key_total, draws) ==
    IF i >= Len(structure) THEN [heap |-> heap, current_time |-> current_time]
    ELSE song_sections_break(
             song_section_turn(heap, sections, i, current_time, structure,
                               chord_progression, style, tempo, key_total, draws),
             sections, i, structure, chord_progression, style, tempo,
             key_total, draws)

\* The dictionary generate_whole_song returns, put on the heap.
song_return(looped, style, tempo, key, structure, sections, chord_progression) ==
    [ heap |-> alloc(looped.heap,
                     [ style |-> style, tempo |-> tempo, key |-> key,
                       structure |-> structure, sections |-> sections,
                       total_duration |-> looped.current_time,
                       chord_progression |-> chord_progression ]),
      song |-> new_ref(looped.heap) ]

\* generate_whole_song after _generate_song_chords has returned chords.
song_sections(chords, style, tempo, key, total_duration, structure, draws) ==
    song_return(
        song_sections_loop(alloc(chords.heap, << >>), new_ref(chords.heap), 0, 0,
                           structure, chords.progs, style, tempo,
                           [key |-> key, total_duration |-> total_duration],
                           draws),
        style, tempo, key, structure, new_ref(chords.heap), chords.progs)

\* WholeSongGenerator.generate_whole_song: [heap, song], song the reference of
\* the returned dictionary.
generate_whole_song(heap, style, tempo, key, total_duration, draws) ==
    song_sections(generate_song_chords(heap, key, style,
                                       Len(song_structures(style)), draws.tension),
                  style, tempo, key, total_duration, song_structures(style), draws)

\* style_variations.get(base_style, ["alternative", "remix", "acoustic"])
style_variations(base_style) ==
    CASE base_style = "pop"        -> <<"acoustic", "electronic", "rock">>
      [] base_style = "rock"       -> <<"metal", "indie", "progressive">>
      [] base_style = "hip-hop"    -> <<"trap", "boom-bap", "experimental">>
      [] base_style = "electronic" -> <<"house", "techno", "ambient">>
      [] base_style = "jazz"       -> <<"fusion", "bebop", "smooth">>
      [] OTHER                     -> <<"alternative", "remix", "acoustic">>

\* _get_style_complexity, in 1/10000
get_style_complexity(style) ==
    CASE style = "acoustic"   -> 4000 [] style = "electronic" -> 8000
      [] style = "metal"      -> 9000 [] style = "ambient"    -> 3000
      [] style = "trap"       -> 7000 [] style = "techno"     -> 8000
      [] style = "fusion"     -> 9000 [] style = "indie"      -> 5000
      [] OTHER                -> 6000

\* d[key] = value on a dictionary: the dictionary afterwards.
dict_set(d, key, value) ==
    [ f \in DOMAIN d \cup {key} |-> IF f = key THEN value ELSE d[f] ]

\* dict.copy(): a new dictionary with the same values, references included.
dict_copy(heap, ref) == [heap |-> alloc(heap, heap[ref]), ref |-> new_ref(heap)]

\* A mutant of the section's change: the variant's complexity is stored as the
\* section's energy too.
modify_section_and_energy(section, beat_pattern, style_complexity) ==
    [ section EXCEPT !.beat_pattern = beat_pattern,
                     !.energy = style_complexity \div 100 ]

\* modified_section["beat_pattern"] = ...: the value of the copy afterwards.
modify_section(section, beat_pattern, style_complexity) ==
    [ section EXCEPT !.beat_pattern = beat_pattern ]

\* The loop over variation["sections"] from its k-th section on;
\* modified_sections is the reference of the new list.
RECURSIVE variation_sections_loop(_, _, _, _, _, _, _, _)
variation_sections_loop(heap, modified_sections, section_refs, k, target_style, base_style, tempo, draws) ==
    IF k > Len(section_refs) THEN heap
    ELSE LET copied == dict_copy(heap, section_refs[k])
             section == heap[section_refs[k]]
             style_complexity == get_style_complexity(target_style)
             beat_pattern == generate_beat(
                                 IF target_style \in {"rock", "jazz", "electronic"}
                                 THEN target_style ELSE base_style,
                                 tempo, section.bars, style_complexity, NoReference,
                                 song_hits(draws, section.bars),
                                 song_ghosts(draws, section.bars))
             heap1 == [ copied.heap EXCEPT
                          ![copied.ref] = modify_section(@, beat_pattern,
                                                         style_complexity),
                          ![modified_sections] = Append(@, copied.ref) ]
         IN  variation_sections_loop(heap1, modified_sections, section_refs, k + 1,
                                     target_style, base_style, tempo, draws)

\* The loop of generate_arrangement_variations from index i on; variations
\* collects the references of the variations.
RECURSIVE variations_loop(_, _, _, _, _, _, _)
variations_loop(heap, variations, i, n, base_song, base_style, draws) ==
    IF i >= n THEN [heap |-> heap, variations |-> variations]
    ELSE LET target_style == style_variations(base_style)[i + 1]
             copied == dict_copy(heap, base_song)
             variation == copied.ref
             heap1 == [ copied.heap EXCEPT ![variation] =
                          dict_set(dict_set(@, "style", target_style),
                                   "variation_id", i + 1) ]
             heap2 == alloc(heap1, << >>)
             modified_sections == new_ref(heap1)
             heap3 == variation_sections_loop(heap2, modified_sections,
                          heap2[heap2[variation].sections], 1, target_style,
                          base_style, heap2[variation].tempo, draws)
             heap4 == [ heap3 EXCEPT ![variation] =
                          dict_set(@, "sections", modified_sections) ]
         IN  variations_loop(heap4, Append(variations, variation), i + 1, n,
                             base_song, base_style, draws)

\* WholeSongGenerator.generate_arrangement_variations: [heap, variations].
generate_arrangement_variations(heap, base_song, num_variations, draws) ==
    LET base_style == heap[base_song].style
    IN  variations_loop(heap, << >>, 0,
                        Min2(num_variations, Len(style_variations(base_style))),
                        base_song, base_style, draws)

---------------------------------------------------------------------------
(* AudioCombiner.  A sample is written in tenths of full scale and a mix   *)
(* level in tenths, so that a mixed sample is in hundredths.  The tracks   *)
(* are the arrays of combine after line 36: read, at the combiner's sample *)
(* rate and mono.  A written sample is the exact rational num / den.       *)

\* "if mix_levels is None: mix_levels = {...}"; None is written as the
\* record without fields.
default_mix_levels(mix_levels) ==
    IF DOMAIN mix_levels = {} THEN [beat |-> 7, melody |-> 8] ELSE mix_levels

\* np.tile(audio, loops_needed)
np_tile(audio, loops_needed) ==
    [ k \in 1..(Len(audio) * loops_needed) |-> audio[((k - 1) % Len(audio)) + 1] ]

\* A mutant of the loop: the missing samples are silence.
loop_audio_padded(audio, target_length) ==
    [ k \in 1..target_length |-> IF k <= Len(audio) THEN audio[k] ELSE 0 ]

\* AudioCombiner._loop_audio, for a track that is not empty
loop_audio(audio, target_length) ==
    IF Len(audio) >= target_length THEN list_prefix(audio, target_length)
    ELSE LET loops_needed == target_length \div Len(audio)
             remainder == target_length % Len(audio)
             looped == np_tile(audio, loops_needed)
         IN  IF remainder > 0 THEN looped \o list_prefix(audio, remainder)
             ELSE looped

\* combine, lines 38-46: the two tracks with the shorter one looped.
match_lengths(beat_audio, melody_audio) ==
    LET max_length == Max2(Len(beat_audio), Len(melody_audio))
    IN  [ beat   |-> IF Len(beat_audio) < max_length
                     THEN loop_audio(beat_audio, max_length) ELSE beat_audio,
          melody |-> IF Len(melody_audio) < max_length
                     THEN loop_audio(melody_audio, max_length) ELSE melody_audio ]

\* combine, lines 52-57: beat_audio * level + melody_audio * level, in
\* hundredths.
mix_tracks(matched, mix_levels) ==
    [ k \in 1..Len(matched.beat) |->
        matched.beat[k] * ref_get(mix_levels, "beat", 7)
        + matched.melody[k] * ref_get(mix_levels, "melody", 8) ]

\* np.max(np.abs(audio)) of an array that is not empty
np_max_abs(audio) ==
    CHOOSE m \in { Abs(audio[k]) : k \in DOMAIN audio } :
        \A k \in DOMAIN audio : m >= Abs(audio[k])

\* "if np.max(np.abs(audio)) > 0: audio = audio / np.max(np.abs(audio)) *
\* target": samples in 1/unit of full scale, target in tenths.
normalize(audio, unit, target) ==
    LET peak == np_max_abs(audio)
    IN  [ k \in DOMAIN audio |->
            IF peak > 0 THEN [num |-> audio[k] * target, den |-> peak * 10]
            ELSE [num |-> audio[k], den |-> unit] ]

\* What combine raises: _loop_audio divides by the length of an empty track
\* (ZeroDivisionError), np.max has no value on an empty array (ValueError).
combine_raises(beat_audio, melody_audio) ==
    Len(beat_audio) = 0 \/ Len(melody_audio) = 0

\* AudioCombiner.combine: the array written to the file.
combine(beat_audio, melody_audio, mix_levels) ==
    IF combine_raises(beat_audio, melody_audio)
    THEN [raised |-> TRUE, samples |-> << >>]
    ELSE [ raised  |-> FALSE,
           samples |-> normalize(mix_tracks(match_lengths(beat_audio, melody_audio),
                                            default_mix_levels(mix_levels)),
                                 100, 9) ]

\* A level of mix_multiple_tracks is written in sixtieths, so that the
\* default 1.0 / len(track_paths) is whole for up to six paths.
level_unit == 60

\* "if mix_levels is None: mix_levels = [1.0 / len(track_paths)] *
\* len(track_paths)"
default_level_list(track_paths, levels_given, mix_levels) ==
    IF levels_given THEN mix_levels
    ELSE [ i \in 1..Len(track_paths) |-> level_unit \div Len(track_paths) ]

\* mix_multiple_tracks, lines 127-141: the arrays of the paths that exist,
\* in the order of the paths.  A path is written as the record of whether
\* its file exists and of the mono array read from it.
load_tracks(track_paths) ==
    LET existing == SelectSeq(track_paths, LAMBDA path : path.exists)
    IN  [ i \in 1..Len(existing) |-> existing[i].audio ]

\* max_length after the loop of lines 130-141
max_track_length(tracks) ==
    IF Len(tracks) = 0 THEN 0
    ELSE CHOOSE m \in { Len(tracks[i]) : i \in DOMAIN tracks } :
             \A i \in DOMAIN tracks : m >= Len(tracks[i])

\* mix_multiple_tracks, lines 146-149
pad_tracks(tracks, max_length) ==
    [ i \in DOMAIN tracks |->
        IF Len(tracks[i]) < max_length THEN loop_audio(tracks[i], max_length)
        ELSE tracks[i] ]

\* "for track, level in zip(tracks, mix_levels): mixed += track * level":
\* sample k after the pairs from the j-th on, in 1/600 of full scale.
RECURSIVE zip_mix(_, _, _, _)
zip_mix(tracks, mix_levels, j, k) ==
    IF j > Len(tracks) \/ j > Len(mix_levels) THEN 0
    ELSE tracks[j][k] * mix_levels[j] + zip_mix(tracks, mix_levels, j + 1, k)

\* What mix_multiple_tracks raises: 1.0 / len(track_paths) of no path
\* (ZeroDivisionError), "No valid tracks found", _loop_audio of an empty
\* track and np.max of an empty array.
mix_raises(track_paths, levels_given) ==
    \/ ~levels_given /\ Len(track_paths) = 0
    \/ Len(load_tracks(track_paths)) = 0
    \/ \E i \in DOMAIN track_paths :
          track_paths[i].exists /\ Len(track_paths[i].audio) = 0

\* mix_multiple_tracks for tracks already loaded and not empty
mix_loaded(tracks, mix_levels) ==
    LET padded == pad_tracks(tracks, max_track_length(tracks))
        sum == [ k \in 1..max_track_length(tracks) |->
                   zip_mix(padded, mix_levels, 1, k) ]
    IN  [ raised  |-> FALSE,
          mixed   |-> sum,
          samples |-> normalize(sum, 10 * level_unit, 9),
          num_tracks |-> Len(tracks) ]

\* AudioCombiner.mix_multiple_tracks: the buffer before it is normalised,
\* the array written and the number of tracks in the file name.
mix_multiple_tracks(track_paths, levels_given, mix_levels) ==
    IF mix_raises(track_paths, levels_given)
    THEN [raised |-> TRUE, mixed |-> << >>, samples |-> << >>, num_tracks |-> 0]
    ELSE mix_loaded(load_tracks(track_paths),
                    default_level_list(track_paths, levels_given, mix_levels))

---------------------------------------------------------------------------
(* AudioProcessor: pattern_to_audio.  The written array is the sum, then   *)
(* normalised, of the drum sounds overlaid in loop order; it is kept as    *)
(* the sequence of these overlays.  A noise array of np.random.normal is   *)
(* named by a number: equal numbers are equal arrays.  A velocity is in    *)
(* tenths, a decay in tenths of a second.                                  *)

sample_rate == 44100

\* self.drum_samples: decay and type of a drum type
drum_samples(drum_type) ==
    CASE drum_type = "kick"  -> [freq |-> 60,   decay |-> 5,  type |-> "sine"]
      [] drum_type = "snare" -> [freq |-> 200,  decay |-> 2,  type |-> "noise"]
      [] drum_type = "hihat" -> [freq |-> 8000, decay |-> 1,  type |-> "noise"]
      [] drum_type = "crash" -> [freq |-> 4000, decay |-> 10, type |-> "noise"]
      [] drum_type = "ride"  -> [freq |-> 3000, decay |-> 5,  type |-> "noise"]

\* _get_drum_name
get_drum_name(drum_idx) ==
    LET drum_names == <<"kick", "snare", "hihat", "hihat_open", "crash",
                        "ride", "tom_high", "tom_mid", "tom_low">>
    IN  IF drum_idx < Len(drum_names) THEN drum_names[drum_idx + 1] ELSE "kick"

\* drum_map.get(drum_name, "kick")
drum_map(drum_name) ==
    CASE drum_name \in {"hihat", "hihat_open", "hihat_closed"} -> "hihat"
      [] drum_name \in {"snare", "crash", "ride"} -> drum_name
      [] OTHER -> "kick"

\* Whether a sound of the drum is made of np.random.normal's noise.
drum_is_noise(drum_name) == drum_samples(drum_map(drum_name)).type = "noise"

\* _generate_drum_sound: the array it returns, as what determines it: the
\* drum type, the number of samples, the velocity and, for a noise type, the
\* noise array drawn in this call (0 for the sine type, which draws none).
generate_drum_sound(drum_name, velocity, noise) ==
    LET drum_type == drum_map(drum_name)
        params == drum_samples(drum_type)
    IN  [ drum_type |-> drum_type,
          samples   |-> (params.decay * sample_rate) \div 10,
          velocity  |-> velocity,
          noise     |-> IF params.type = "sine" THEN 0 ELSE noise ]

\* The cells with velocity > 0 in loop order: drum after drum, step after
\* step.
RECURSIVE pattern_hits(_, _, _, _)
pattern_hits(pattern, num_steps, drum_idx, step_idx) ==
    IF drum_idx >= Cardinality(DOMAIN pattern) THEN << >>
    ELSE IF step_idx >= num_steps THEN pattern_hits(pattern, num_steps, drum_idx + 1, 0)
    ELSE (IF pattern[drum_idx][step_idx] > 0
          THEN << <<drum_idx, step_idx>> >> ELSE << >>)
         \o pattern_hits(pattern, num_steps, drum_idx, step_idx + 1)

\* The noise hits among the first k hits.
noise_hits_before(hits, k) ==
    Cardinality({ h \in 1..k : drum_is_noise(get_drum_name(hits[h][1])) })

\* int(num_steps * seconds_per_step * self.sample_rate) for a positive tempo,
\* seconds_per_step being 1 / ((tempo / 60) * 4)
samples_at_step(step_idx, tempo) == (step_idx * 15 * sample_rate) \div tempo

\* What pattern_to_audio raises: 1 / (beats_per_second * 4) divides by zero
\* at tempo 0, np.zeros refuses the negative size of a negative tempo, and
\* np.max has no value on the empty array of a pattern without steps.
pattern_to_audio_raises(num_steps, tempo) ==
    tempo <= 0 \/ samples_at_step(num_steps, tempo) = 0

\* pattern_to_audio, lines 47-64: one overlay per hit; noises are the arrays
\* np.random.normal returns to the noise hits of this call, in order.
pattern_overlays(pattern, tempo, noises) ==
    LET num_steps == Cardinality(DOMAIN pattern[0])
        total_samples == samples_at_step(num_steps, tempo)
        hits == pattern_hits(pattern, num_steps, 0, 0)
    IN  [ k \in 1..Len(hits) |->
          LET drum_name == get_drum_name(hits[k][1])
              velocity == pattern[hits[k][1]][hits[k][2]]
              sample_pos == samples_at_step(hits[k][2], tempo)
              drum_audio == generate_drum_sound(drum_name, velocity,
                                IF drum_is_noise(drum_name)
                                THEN noises[noise_hits_before(hits, k)] ELSE 0)
              end_pos == Min2(sample_pos + drum_audio.samples, total_samples)
          IN  [ sample_pos |-> sample_pos, audio_len |-> end_pos - sample_pos,
                drum_audio |-> drum_audio ] ]

\* AudioProcessor.pattern_to_audio: the array written to the file, which is
\* total_samples long and holds the sum of the overlays scaled to the peak
\* 0.8 (lines 66-68).
pattern_to_audio(pattern, tempo, noises) ==
    IF pattern_to_audio_raises(Cardinality(DOMAIN pattern[0]), tempo)
    THEN [raised |-> TRUE, overlays |-> << >>, total_samples |-> 0]
    ELSE [ raised        |-> FALSE,
           overlays      |-> pattern_overlays(pattern, tempo, noises),
           total_samples |-> samples_at_step(Cardinality(DOMAIN pattern[0]), tempo) ]

---------------------------------------------------------------------------
(* AudioProcessor: melody_to_midi.  A duration is in quarters of a beat, a *)
(* message time in ticks.  The track is the list of messages the call      *)
(* saves.                                                                  *)

\* mid.ticks_per_beat of a new MidiFile
ticks_per_beat == 480

\* int(duration * ticks_per_second), ticks_per_second being
\* (tempo / 60) * ticks_per_beat; int() rounds towards zero.
duration_ticks(duration, tempo) ==
    LET product == duration * tempo * ticks_per_beat
    IN  IF product >= 0 THEN product \div 240 ELSE 0 - ((0 - product) \div 240)

\* Message(type, channel=0, note=int(note), velocity=64, time=time)
midi_message(type, note, time) ==
    [type |-> type, channel |-> 0, note |-> note, velocity |-> 64, time |-> time]

\* Message raises ValueError for a data byte outside 0..127.
message_raises(note) == note < 0 \/ note > 127

\* zip(notes, durations)
zip_lists(notes, durations) ==
    [ k \in 1..Min2(Len(notes), Len(durations)) |-> <<notes[k], durations[k]>> ]

\* A mutant of the pairing: the durations are taken from the end of their list.
pair_messages_from_end(pairs, tempo) ==
    [ m \in 1..(2 * Len(pairs)) |->
        IF m % 2 = 1 THEN midi_message("note_on", pairs[(m + 1) \div 2][1], 0)
        ELSE midi_message("note_off", pairs[m \div 2][1],
                          duration_ticks(pairs[Len(pairs) + 1 - (m \div 2)][2], tempo)) ]

\* The loop of melody_to_midi: a note_on and a note_off per pair.  The time
\* of the first note_on is int(0 * ticks_per_second), of the others 0.
pair_messages(pairs, tempo) ==
    [ m \in 1..(2 * Len(pairs)) |->
        IF m % 2 = 1 THEN midi_message("note_on", pairs[(m + 1) \div 2][1], 0)
        ELSE midi_message("note_off", pairs[m \div 2][1],
                          duration_ticks(pairs[m \div 2][2], tempo)) ]

\* What melody_to_midi raises: a Message of the loop, or mid.save, which
\* refuses a message with a negative time.
melody_to_midi_raises(pairs, tempo) ==
    \/ \E k \in DOMAIN pairs : message_raises(pairs[k][1])
    \/ \E k \in DOMAIN pairs : duration_ticks(pairs[k][2], tempo) < 0

\* AudioProcessor.melody_to_midi: the messages of the saved track.
melody_to_midi(notes, durations, tempo) ==
    LET pairs == zip_lists(notes, durations)
    IN  IF melody_to_midi_raises(pairs, tempo)
        THEN [raised |-> TRUE, track |-> << >>]
        ELSE [ raised |-> FALSE,
               track  |-> << [type |-> "program_change", channel |-> 0,
                              program |-> 1, time |-> 0] >>
                          \o pair_messages(pairs, tempo) ]

\* chord_intervals.get(base_chord, [0, 4, 7]) of _generate_chord_audio
chord_intervals(base_chord) ==
    CASE base_chord = "I"   -> <<0, 4, 7>>
      [] base_chord = "ii"  -> <<2, 5, 9>>
      [] base_chord = "iii" -> <<4, 7, 11>>
      [] base_chord = "IV"  -> <<5, 9, 0>>
      [] base_chord = "V"   -> <<7, 11, 2>>
      [] base_chord = "vi"  -> <<9, 0, 4>>
      [] base_chord = "vii" -> <<11, 2, 5>>
      [] OTHER              -> <<0, 4, 7>>

\* AudioProcessor._generate_chord_audio: the intervals above base_freq (220,
\* whatever the key) of the sines it sums, and the length of the array.
generate_chord_audio(chord, duration) ==
    LET base_chord == str_remove(str_remove(str_remove(chord, "Maj7"), "7"), "°")
    IN  [ samples   |-> (duration * sample_rate),
          intervals |-> chord_intervals(base_chord) ]

\* What chords_to_audio raises: np.max has no value on the empty buffer of
\* an empty progression.
chords_to_audio_raises(chords) == Len(chords) = 0

\* chords_to_audio, lines 234-258: the buffer it writes, as its length and
\* the chord added every 2 seconds.
chords_buffer(chords) ==
    [ total_samples |-> Len(chords) * 2 * sample_rate,
      overlays |-> [ i \in 1..Len(chords) |->
                       [ start_sample |-> (i - 1) * 2 * sample_rate,
                         chord_audio  |-> generate_chord_audio(chords[i], 2) ] ] ]

\* The clock runs in half seconds.
clock_unit == 2

\* datetime.now().strftime("%Y%m%d_%H%M%S"): the time cut to the second.
strftime_seconds(now) == now \div clock_unit

\* chords_to_audio, lines 261-263: os.path.join(output_dir, filename), the
\* directory being "./temp" in every call.
chords_output_path(now) == [prefix |-> "chords", timestamp |-> strftime_seconds(now)]

\* AudioProcessor.chords_to_audio at the time now: the files after sf.write
\* and the returned path.
chords_to_audio(chords, now, written) ==
    [ files |-> [ path \in DOMAIN written \cup {chords_output_path(now)} |->
                    IF path = chords_output_path(now) THEN chords_buffer(chords)
                    ELSE written[path] ],
      output_path |-> chords_output_path(now) ]

\* midi_to_audio reads every file at "tempo = 500000": 120 beats a minute.
default_tempo == 500000

\* A time in seconds is written in 1/960 of a second, the length of a tick
\* at the default tempo.
seconds_scale == 960

\* mido.tick2second(tick, ticks_per_beat, tempo): tick * tempo * 1e-6 /
\* ticks_per_beat, the tempo in microseconds a beat.  The beat's length is
\* taken first; it is a whole number of 1/960 s for the default tempo.
tick2second(tick, per_beat, tempo) ==
    (tick * ((tempo * seconds_scale) \div 1000000)) \div per_beat

\* int(seconds * self.sample_rate)
seconds_to_samples(seconds) == (seconds * sample_rate) \div seconds_scale

\* midi_to_audio, lines 144-153: the length of the track in seconds.
midi_duration_seconds(track) ==
    tick2second(sum_list([ m \in 1..Len(track) |-> track[m].time ]),
                ticks_per_beat, default_tempo)

\* The note _midi_to_simple_audio adds to the buffer at a note_off, lines
\* 354-371: audio_len samples of the note's sine from start_sample on.
midi_note_event(note, note_info, track_time, total_samples) ==
    LET note_duration == track_time - note_info.start_time
        start_sample  == seconds_to_samples(note_info.start_time)
        end_sample    == Min2(start_sample + seconds_to_samples(note_duration),
                              total_samples)
    IN  IF start_sample < total_samples
        THEN << [ note |-> note, start_time |-> note_info.start_time,
                  duration |-> note_duration, start_sample |-> start_sample,
                  audio_len |-> end_sample - start_sample ] >>
        ELSE << >>

\* The loop of _midi_to_simple_audio over the messages of the track from the
\* m-th on; active_notes maps a sounding pitch to its start.
RECURSIVE midi_messages_loop(_, _, _, _, _, _)
midi_messages_loop(track, m, track_time, active_notes, written, total_samples) ==
    IF m > Len(track) THEN written
    ELSE LET msg  == track[m]
             time == track_time + tick2second(msg.time, ticks_per_beat, default_tempo)
         IN  IF msg.type = "note_on" /\ msg.velocity > 0
             THEN midi_messages_loop(track, m + 1, time,
                      [ n \in DOMAIN active_notes \cup {msg.note} |->
                          IF n = msg.note THEN [start_time |-> time]
                          ELSE active_notes[n] ],
                      written, total_samples)
             ELSE IF msg.type \in {"note_off", "note_on"}
                     /\ msg.note \in DOMAIN active_notes
             THEN midi_messages_loop(track, m + 1, time,
                      [ n \in DOMAIN active_notes \ {msg.note} |-> active_notes[n] ],
                      written \o midi_note_event(msg.note, active_notes[msg.note],
                                                 time, total_samples),
                      total_samples)
             ELSE midi_messages_loop(track, m + 1, time, active_notes, written,
                                     total_samples)

\* AudioProcessor._midi_to_simple_audio: the notes added to the buffer.
midi_to_simple_audio(track, duration) ==
    midi_messages_loop(track, 1, 0, << >>, << >>, seconds_to_samples(duration))

\* AudioProcessor.midi_to_audio on the track melody_to_midi saved.
midi_to_audio(track) == midi_to_simple_audio(track, midi_duration_seconds(track))

\* _pattern_to_simple_audio, lines 433-435: "beats_per_second = 2", so
\* seconds_per_step is 1 / (2 * 4) of a second whatever the song's tempo.
simple_seconds_per_step == seconds_scale \div (2 * 4)

\* The cells of a grid in the order of the two loops of lines 437-440: drum
\* after drum, step after step.
pattern_cells(pattern, num_steps) ==
    [ c \in 1..(Cardinality(DOMAIN pattern) * num_steps) |->
        <<(c - 1) \div num_steps, (c - 1) % num_steps>> ]

\* _pattern_to_simple_audio: one overlay per hit whose sample_pos lies
\* inside the section's samples; noises are the arrays np.random.normal
\* returns to the noise hits rendered, in order.
pattern_to_simple_audio(pattern, duration, noises) ==
    LET samples == seconds_to_samples(duration)
        sample_pos(hit) == seconds_to_samples(hit[2] * simple_seconds_per_step)
        rendered_hit(hit) == pattern[hit[1]][hit[2]] > 0 /\ sample_pos(hit) < samples
        hits == SelectSeq(pattern_cells(pattern, Cardinality(DOMAIN pattern[0])),
                          rendered_hit)
    IN  [ k \in 1..Len(hits) |->
          LET drum_name == get_drum_name(hits[k][1])
              drum_audio == generate_drum_sound(drum_name,
                                pattern[hits[k][1]][hits[k][2]],
                                IF drum_is_noise(drum_name)
                                THEN noises[noise_hits_before(hits, k)] ELSE 0)
              end_pos == Min2(sample_pos(hits[k]) + drum_audio.samples, samples)
          IN  [ step_idx |-> hits[k][2], sample_pos |-> sample_pos(hits[k]),
                audio_len |-> end_pos - sample_pos(hits[k]),
                drum_audio |-> drum_audio ] ]

\* The loop of _melody_to_simple_audio from the k-th pair on: a note's
\* duration in beats is taken for its length in seconds.
RECURSIVE melody_notes_loop(_, _, _, _, _)
melody_notes_loop(pairs, k, current_time, duration, written) ==
    IF k > Len(pairs) \/ current_time >= duration THEN written
    ELSE LET note_duration == pairs[k][2] * (seconds_scale \div beat_unit)
             start_sample  == seconds_to_samples(current_time)
             end_sample    == Min2(start_sample + seconds_to_samples(note_duration),
                                   seconds_to_samples(duration))
         IN  melody_notes_loop(pairs, k + 1, current_time + note_duration, duration,
                 IF start_sample < seconds_to_samples(duration)
                 THEN Append(written,
                             [ note |-> pairs[k][1], start_sample |-> start_sample,
                               audio_len |-> end_sample - start_sample ])
                 ELSE written)

\* AudioProcessor._melody_to_simple_audio: the notes added to the buffer.
melody_to_simple_audio(melody_data, duration) ==
    melody_notes_loop(zip_lists(melody_data.notes, melody_data.durations), 1, 0,
                      duration, << >>)

\* AudioProcessor._generate_section_audio: the beat at 0.6 and the melody at
\* 0.4 of a buffer of int(duration * sample_rate) samples.
generate_section_audio(section, duration, noises) ==
    [ samples |-> seconds_to_samples(duration),
      beat    |-> pattern_to_simple_audio(section.beat_pattern, duration, noises),
      melody  |-> melody_to_simple_audio(section.melody, duration) ]

\* song_to_audio, lines 189-206, for one section that starts inside the
\* song: where its audio is added, and the audio.
section_to_audio(section, noises) ==
    [ start_sample |-> seconds_to_samples(section.start_time * seconds_scale),
      audio |-> generate_section_audio(section, section.duration * seconds_scale,
                                       noises) ]

---------------------------------------------------------------------------
(* Specifications.  A component's specification starts with its call       *)
(* pending and the other components idle.                                  *)

HarmonyIdle == harmonyArgs = "idle" /\ suggestions = "idle"
ChordIdle   == chordArgs = "idle" /\ chordNotes = "idle" /\ chordAudio = "idle"
BeatIdle    == beatArgs = "idle" /\ beatPattern = "idle"
DurIdle     == durArgs = "idle" /\ durState = "idle"
MelodyIdle  == melodyArgs = "idle" /\ melody = "idle"
SongIdle    == /\ songArgs = "idle" /\ songHeap = "idle"
               /\ baseSong = "idle" /\ songVariations = "idle"

CombineIdle == combineArgs = "idle" /\ combined = "idle"
RenderIdle  == renderArgs = "idle" /\ drumSoundCalls = "idle" /\ rendered = "idle"
MidiIdle    == midiArgs = "idle" /\ midiTrack = "idle" /\ midiAudio = "idle"
SectionIdle == sectionArgs = "idle" /\ sectionAudio = "idle"
PreviewIdle == /\ previewArgs = "idle" /\ clock = "idle"
               /\ files = "idle" /\ previews = "idle"
DatabaseIdle == /\ db_module = "idle" /\ client = "idle" /\ database = "idle"
                /\ opened = "idle" /\ created = "idle" /\ handle = "idle"
                /\ indexes = "idle"
MixIdle == mixArgs = "idle" /\ mixed = "idle"

IdleExcept(c) ==
    /\ IF c = "harmony" THEN TRUE ELSE HarmonyIdle
    /\ IF c = "chord" THEN TRUE ELSE ChordIdle
    /\ IF c = "beat" THEN TRUE ELSE BeatIdle
    /\ IF c = "durations" THEN TRUE ELSE DurIdle
    /\ IF c = "melody" THEN TRUE ELSE MelodyIdle
    /\ IF c = "song" THEN TRUE ELSE SongIdle
    /\ IF c = "combine" THEN TRUE ELSE CombineIdle
    /\ IF c = "render" THEN TRUE ELSE RenderIdle
    /\ IF c = "midi" THEN TRUE ELSE MidiIdle
    /\ IF c = "section" THEN TRUE ELSE SectionIdle
    /\ IF c = "preview" THEN TRUE ELSE PreviewIdle
    /\ IF c = "database" THEN TRUE ELSE DatabaseIdle
    /\ IF c = "mix" THEN TRUE ELSE MixIdle

Frame(c) ==
    /\ IF c = "harmony" THEN TRUE ELSE UNCHANGED <<harmonyArgs, suggestions>>
    /\ IF c = "chord" THEN TRUE
       ELSE UNCHANGED <<chordArgs, chordNotes, chordAudio>>
    /\ IF c = "beat" THEN TRUE ELSE UNCHANGED <<beatArgs, beatPattern>>
    /\ IF c = "durations" THEN TRUE ELSE UNCHANGED <<durArgs, durState>>
    /\ IF c = "melody" THEN TRUE ELSE UNCHANGED <<melodyArgs, melody>>
    /\ IF c = "song" THEN TRUE
       ELSE UNCHANGED <<songArgs, songHeap, baseSong, songVariations>>
    /\ IF c = "combine" THEN TRUE ELSE UNCHANGED <<combineArgs, combined>>
    /\ IF c = "render" THEN TRUE
       ELSE UNCHANGED <<renderArgs, drumSoundCalls, rendered>>
    /\ IF c = "midi" THEN TRUE ELSE UNCHANGED <<midiArgs, midiTrack, midiAudio>>
    /\ IF c = "section" THEN TRUE ELSE UNCHANGED <<sectionArgs, sectionAudio>>
    /\ IF c = "preview" THEN TRUE
       ELSE UNCHANGED <<previewArgs, clock, files, previews>>
    /\ IF c = "database" THEN TRUE
       ELSE UNCHANGED <<db_module, client, database, opened, created, handle,
                        indexes>>
    /\ IF c = "mix" THEN TRUE ELSE UNCHANGED <<mixArgs, mixed>>

---------------------------------------------------------------------------
(* SpecHarmony: one call of HarmonySuggester.suggest.                      *)

MaxHarmonyBars == 6

\* "H" is no key of note_to_midi, "electronic" no genre and "energetic" no
\* mood of self.progressions.
HarmonyKeys   == {"C", "G", "H"}
HarmonyGenres == {"pop", "jazz", "rock", "electronic"}
HarmonyMoods  == {"happy", "sad", "energetic"}

HarmonyInit ==
    /\ pc = "suggest"
    /\ harmonyArgs \in [ key : HarmonyKeys, genre : HarmonyGenres,
                         mood : HarmonyMoods, bars : 0..MaxHarmonyBars ]
    /\ suggestions = << >>
    /\ IdleExcept("harmony")

Suggest ==
    /\ pc = "suggest"
    /\ suggestions' = suggest(harmonyArgs.key, harmonyArgs.genre,
                              harmonyArgs.mood, harmonyArgs.bars)
    /\ pc' = "suggested"
    /\ UNCHANGED harmonyArgs
    /\ Frame("harmony")

HarmonyNext == Suggest

SpecHarmony == HarmonyInit /\ [][HarmonyNext]_vars

\* The templates the call ranks, and a template repeated and cut to bars.
TemplatesOfCall ==
    progressions(IF harmonyArgs.genre \in {"pop", "jazz", "rock"}
                 THEN harmonyArgs.genre ELSE "pop",
                 IF harmonyArgs.mood \in {"happy", "sad"}
                 THEN harmonyArgs.mood ELSE "happy")

Tiled(prog, bars) == [ k \in 1..bars |-> prog[((k - 1) % Len(prog)) + 1] ]

ScoreOf(chords) ==
    20 * Cardinality({chords[k] : k \in 1..Len(chords)})
      + (IF \E k \in 1..Len(chords) : chords[k] \in {"V", "V7"} THEN 30 ELSE 0)

\* C9: suggest returns one candidate per template, in non-increasing order of
\* score = 20 * distinct symbols + 30 for a dominant, candidates of equal score
\* in template order; for C / pop / happy / 4 bars the first is I-V-vi-IV with
\* the 'pop progression' description.
C9_RankedByScore ==
    pc = "suggested" =>
      LET n == Len(suggestions)
          T == TemplatesOfCall
      IN  /\ n = Len(T)
          /\ \A i \in 1..n : suggestions[i].score = ScoreOf(suggestions[i].chords)
          /\ \A i, j \in 1..n : i < j => suggestions[i].score >= suggestions[j].score
          /\ \E order \in [1..n -> 1..n] :
                /\ \A i, j \in 1..n : i # j => order[i] # order[j]
                /\ \A i \in 1..n :
                     suggestions[i].chords = Tiled(T[order[i]], harmonyArgs.bars)
                /\ \A i, j \in 1..n :
                     (i < j /\ suggestions[i].score = suggestions[j].score)
                        => order[i] < order[j]
          /\ (harmonyArgs = [key |-> "C", genre |-> "pop", mood |-> "happy", bars |-> 4])
                => /\ suggestions[1].chords = <<"I", "V", "vi", "IV">>
                   /\ suggestions[1].description
                        = "The 'pop progression' - used in countless hit songs"

\* C9's case: the scenario's call has returned and its two best candidates tie.
C9_Witness ==
    /\ pc = "suggested"
    /\ harmonyArgs = [key |-> "C", genre |-> "pop", mood |-> "happy", bars |-> 4]
    /\ suggestions[1].score = 110
    /\ suggestions[2].score = 110
    /\ suggestions[2].chords = <<"I", "vi", "IV", "V">>

---------------------------------------------------------------------------
(* SpecChord: one call of MelodyGenerator._get_chord_notes.                *)

\* Every symbol of HarmonySuggester.progressions.
TemplateSymbols ==
    UNION { { progressions(g, m)[t][k] : t \in 1..4, k \in 1..4 }
            : g \in progression_genres, m \in progression_moods }

\* The substitutes of WholeSongGenerator._add_harmonic_tension, and symbols
\* outside every table.
TensionSymbols == {"IMaj7", "I6", "V7", "V9", "vi7", "vim7", "IVMaj7", "IVadd9"}
OtherSymbols   == {"vii°", "v", "bII", "bV", "N"}

ChordInit ==
    /\ pc = "chord"
    /\ chordArgs \in [ chord : TemplateSymbols \cup TensionSymbols \cup OtherSymbols,
                       key : 60..71 ]
    /\ chordNotes = << >>
    /\ chordAudio = << >>
    /\ IdleExcept("chord")

GetChordNotes ==
    /\ pc = "chord"
    /\ chordNotes' = get_chord_notes(chordArgs.chord, chordArgs.key)
    /\ pc' = "chord_done"
    /\ UNCHANGED <<chordArgs, chordAudio>>
    /\ Frame("chord")

ChordNext == GetChordNotes

SpecChord == ChordInit /\ [][ChordNext]_vars

\* The numeral of a symbol as the claim reads it: an optional "b" and the
\* Roman letters that follow.
RECURSIVE NumeralOf(_)
NumeralOf(s) ==
    IF Len(s) > 0 /\ SubSeq(s, 1, 1) \in {"b", "I", "V", "i", "v"}
    THEN SubSeq(s, 1, 1) \o NumeralOf(SubSeq(s, 2, Len(s)))
    ELSE ""

IsUpperNumeral(s) ==
    LET n == NumeralOf(s)
        first == IF str_startswith(n, "b") THEN SubSeq(n, 2, 2) ELSE SubSeq(n, 1, 1)
    IN  first \in {"I", "V"}

\* The chord C10 states for a symbol.
ClaimedChord(chord, key) ==
    LET root  == key + roman_to_interval(NumeralOf(chord))
        triad == IF str_contains(chord, "°") THEN <<0, 3, 6>>
                 ELSE IF IsUpperNumeral(chord) THEN <<0, 4, 7>>
                 ELSE <<0, 3, 7>>
        seventh == IF str_contains(chord, "Maj7") THEN <<11>>
                   ELSE IF str_contains(chord, "7") THEN <<10>>
                   ELSE << >>
        intervals == triad \o seventh
    IN  [ k \in 1..Len(intervals) |-> root + intervals[k] ]

\* C10 as stated: for every template symbol the lookup yields the degree's
\* root, a major / minor triad by the numeral's case, a diminished triad when
\* the symbol carries the mark, and the 7th the symbol names; V7 in C is
\* {G, B, D, F}.
C10_TemplateChordRule ==
    (pc = "chord_done" /\ chordArgs.chord \in TemplateSymbols) =>
        /\ chordNotes = ClaimedChord(chordArgs.chord, chordArgs.key)
        /\ (chordArgs.chord = "V7" /\ chordArgs.key = 60)
              => { chordNotes[k] % 12 : k \in 1..Len(chordNotes) } = {7, 11, 2, 5}

\* The symbols WholeSongGenerator hands to MelodyGenerator.generate: the
\* chords of the suggester's first "happy" candidate of a style, and their
\* substitutes.
SongSymbols ==
    UNION { { suggest("C", g, "happy", 4)[1].chords[k] : k \in 1..4 }
            : g \in progression_genres }
    \cup TensionSymbols

\* C24 as stated: every symbol the song hands over is stripped to its base
\* numeral, so the chord's root is the degree of the chord it stands for.
C24_SongSymbolsKeepDegree ==
    (pc = "chord_done" /\ chordArgs.chord \in SongSymbols) =>
        /\ clean_chord(chordArgs.chord) = NumeralOf(chordArgs.chord)
        /\ chordNotes[1]
              = chordArgs.key + roman_to_interval(NumeralOf(chordArgs.chord))

---------------------------------------------------------------------------
(* SpecChordAudio: a symbol looked up by MelodyGenerator._get_chord_notes   *)
(* and rendered by AudioProcessor._generate_chord_audio, as chords_to_audio *)
(* does for each chord of a preview (2 seconds a chord).                    *)

GenerateChordAudio ==
    /\ pc = "chord_done"
    /\ chordAudio' = generate_chord_audio(chordArgs.chord, 2)
    /\ pc' = "chord_audio_done"
    /\ UNCHANGED <<chordArgs, chordNotes>>
    /\ Frame("chord")

ChordAudioNext == GetChordNotes \/ GenerateChordAudio

SpecChordAudio == ChordInit /\ [][ChordAudioNext]_vars

\* C26 as stated: for every symbol of the suggester's templates the pitch
\* classes the render synthesizes, relative to the tonic, are those of
\* _get_chord_notes, the 7th of a seventh chord and the minor third of a
\* lower-case numeral included.
C26_RenderUsesChordRule ==
    (pc = "chord_audio_done" /\ chordArgs.chord \in TemplateSymbols) =>
        { chordAudio.intervals[k] % 12 : k \in 1..Len(chordAudio.intervals) }
          = { (chordNotes[k] - chordArgs.key) % 12 : k \in 1..Len(chordNotes) }

---------------------------------------------------------------------------
(* SpecBeat: one call of BeatGenerator.generate.                           *)

MaxBeatBars == 4

\* "acoustic" has no template.  The references: none; a genre with a
\* template, written in capitals; a genre without one, with an energy, a
\* mood and a time signature; an energy alone.
BeatGenres       == {"hip-hop", "rock", "jazz", "electronic", "acoustic"}
BeatComplexities == {3000, 5000, 9000}
BeatReferences ==
    { NoReference,
      [genre |-> "Jazz", tempo |-> 90],
      [genre |-> "classical", energy |-> 50, mood |-> "happy",
       time_signature |-> "3/4"],
      [energy |-> 100] }

BeatInit ==
    /\ pc = "generate_beat"
    /\ beatArgs \in [ genre : BeatGenres, tempo : {120}, bars : 0..MaxBeatBars,
                      complexity : BeatComplexities, reference : BeatReferences ]
    /\ beatPattern = << >>
    /\ IdleExcept("beat")

\* The outcomes of the draws of one call.  Every cell is drawn on its own, so
\* the outcomes taken are: no draw hits, exactly one cell is hit, exactly one
\* off-beat ghost is hit, one hi-hat cell is hit by both, every draw hits.
\* Without variation the code draws nothing: the outcomes are what the
\* generator would have drawn, nothing or a hit everywhere.
BeatDraws(args) ==
    LET p     == beat_params(args.genre, args.tempo, args.complexity, args.reference)
        prob  == variation_prob(p.complexity, args.reference)
        steps == 0..(steps_per_bar * args.bars - 1)
        cells == (0..8) \X steps
        offbeats == { j \in steps : j % 2 = 1 }
        none  == [hits |-> {}, ghosts |-> {}]
    IN  IF p.complexity > 5000 /\ prob > 0 /\ prob < prob_one
        THEN {none}
             \cup { [hits |-> {c}, ghosts |-> {}] : c \in cells }
             \cup { [hits |-> cells, ghosts |-> g] : g \in {{}, offbeats} }
             \cup (IF p.complexity > 7000
                   THEN { [hits |-> {}, ghosts |-> {j}] : j \in offbeats }
                        \cup { [hits |-> {<<2, j>>}, ghosts |-> {j}] : j \in offbeats }
                   ELSE {})
        ELSE {none, [hits |-> cells, ghosts |-> offbeats]}

GenerateBeat ==
    /\ pc = "generate_beat"
    /\ \E d \in BeatDraws(beatArgs) :
          beatPattern' = generate_beat(beatArgs.genre, beatArgs.tempo, beatArgs.bars,
                                   beatArgs.complexity, beatArgs.reference,
                                   d.hits, d.ghosts)
    /\ pc' = "beat_done"
    /\ UNCHANGED beatArgs
    /\ Frame("beat")

BeatNext == GenerateBeat

SpecBeat == BeatInit /\ [][BeatNext]_vars

\* C1: every returned grid has 9 rows of 16 * bars columns and every velocity
\* lies in [0, 1].
C1_WellFormedGrid ==
    pc = "beat_done" =>
        /\ DOMAIN beatPattern = 0..8
        /\ \A i \in 0..8 :
              /\ DOMAIN beatPattern[i] = 0..(16 * beatArgs.bars - 1)
              /\ \A j \in DOMAIN beatPattern[i] : beatPattern[i][j] >= 0 /\ beatPattern[i][j] <= 10

\* C1's case: a grid of the algorithmic fallback for a genre without template,
\* four bars long, in which a 0.7 hi-hat was flipped, the snare fill was
\* written and a ghost note was set.
C1_Witness ==
    /\ pc = "beat_done"
    /\ beatArgs.genre = "acoustic"
    /\ beatArgs.bars = 4
    /\ \E j \in DOMAIN beatPattern[2] : beatPattern[2][j] = 3
    /\ \E j \in DOMAIN beatPattern[2] : beatPattern[2][j] = 5
    /\ \A j \in 60..63 : beatPattern[1][j] = 10

\* The genre generate builds the grid for and the complexity it uses, after
\* the reference's overrides.
GenreInUse == beat_params(beatArgs.genre, beatArgs.tempo, beatArgs.complexity,
                          beatArgs.reference).genre
ComplexityInUse == beat_params(beatArgs.genre, beatArgs.tempo, beatArgs.complexity,
                               beatArgs.reference).complexity

\* The kick of the genre's template, or of the algorithmic fallback, at the
\* step s of a bar (from 0): the jazz kick is on steps 0, 3, 6, 9 and 12, the
\* others on 0, 4, 8 and 12.
KickPut(s) ==
    IF GenreInUse = "jazz" THEN (IF s \in {0, 3, 6, 9, 12} THEN 10 ELSE 0)
    ELSE (IF s \in {0, 4, 8, 12} THEN 10 ELSE 0)

\* C18: in every returned grid the kick row at the steps 0 and 8 of every bar
\* holds the value the template or the fallback put there, whatever the
\* variation drew; the kick on step 0 of every bar is 1.
C18_ProtectedKickCells ==
    pc = "beat_done" =>
        \A bar \in 0..(beatArgs.bars - 1) :
            /\ beatPattern[0][16 * bar] = 10
            /\ beatPattern[0][16 * bar] = KickPut(0)
            /\ beatPattern[0][16 * bar + 8] = KickPut(8)

\* C18's case: the variation was drawn on every cell of a two-bar jazz grid,
\* the protected ones included: the kick on step 4, not protected, was
\* flipped to a hit, the kick on step 8 of the second bar stayed silent.
C18_Witness ==
    /\ pc = "beat_done"
    /\ beatArgs.genre = "jazz"
    /\ beatArgs.reference = NoReference
    /\ beatArgs.bars = 2
    /\ beatArgs.complexity = 9000
    /\ beatPattern[0][4] = 10
    /\ beatPattern[0][3] = 0
    /\ beatPattern[0][16] = 10
    /\ beatPattern[0][24] = 0

\* The 16 steps of a voice in the template of a genre, as the table of the
\* claim's sources gives them: the steps of a bar that sound, all at 1.
TemplateSteps(genre, voice) ==
    CASE voice = "kick" ->
           (IF genre = "jazz" THEN {0, 3, 6, 9, 12} ELSE {0, 4, 8, 12})
      [] voice = "snare" ->
           (IF genre = "rock" THEN {2, 6, 10, 14}
            ELSE IF genre = "jazz" THEN {2, 5, 8, 11, 14} ELSE {4, 12})
      [] voice = "hihat_closed" ->
           (IF genre = "hip-hop" THEN {0, 2, 4, 6, 8, 10, 12, 14}
            ELSE IF genre = "rock" THEN 0..15
            ELSE IF genre = "electronic" THEN {2, 6, 10, 14} ELSE {})
      [] voice = "ride" ->
           (IF genre = "jazz" THEN {0, 2, 3, 5, 6, 8, 9, 11, 12, 14} ELSE {})
      [] OTHER -> {}

VoiceOfRow(i) ==
    <<"kick", "snare", "hihat_closed", "hihat_open", "crash", "ride", "tom_high",
      "tom_mid", "tom_low">>[i + 1]

\* C19: with a complexity of at most 0.5 after the reference's energy scaling
\* and a genre that has a template, the grid is the tiled template: the cell
\* (voice, step) is the template's value at step mod 16, the rows of the
\* voices the template does not name are zero, and nothing drawn changes it.
C19_NoVariationAtLowComplexity ==
    (pc = "beat_done" /\ ComplexityInUse <= 5000
                      /\ GenreInUse \in {"hip-hop", "rock", "jazz", "electronic"}) =>
        \A i \in 0..8 : \A j \in 0..(16 * beatArgs.bars - 1) :
            beatPattern[i][j]
                = IF (j % 16) \in TemplateSteps(GenreInUse, VoiceOfRow(i))
                  THEN 10 ELSE 0

\* C19's case: a three-bar rock grid at complexity 0.5 whose third bar holds
\* the template: the snare on its step 2, none on its step 4, no ride.
C19_Witness ==
    /\ pc = "beat_done"
    /\ beatArgs.genre = "rock"
    /\ beatArgs.reference = NoReference
    /\ beatArgs.complexity = 5000
    /\ beatArgs.bars = 3
    /\ beatPattern[1][34] = 10
    /\ beatPattern[1][36] = 0
    /\ beatPattern[2][47] = 10
    /\ \A j \in 0..47 : beatPattern[5][j] = 0

\* C16: a call with bars = 0 or tempo <= 0 is rejected: it returns no grid.
C16_InvalidInputRejected ==
    (pc = "beat_done" /\ (beatArgs.bars = 0 \/ beatArgs.tempo <= 0)) =>
        beatPattern = << >>

---------------------------------------------------------------------------
(* SpecBeatReference: one call of BeatGenerator.generate whose draws are   *)
(* chosen with its arguments, so that the grids of two genres can be       *)
(* compared under the same draws.                                          *)

MaxReferenceBars == 2

\* References with a genre: one with a template, written in capitals or as
\* the table writes it, and two without a template.
GenreReferences ==
    { [genre |-> "Jazz", tempo |-> 90],
      [genre |-> "electronic"],
      [genre |-> "pop"],
      [genre |-> "classical", energy |-> 50, mood |-> "happy",
       time_signature |-> "3/4"] }

\* The draws: no draw hits; the kick on step 4 and the hi-hat on step 1 are
\* hit; every draw hits.
ReferenceDraws(bars) ==
    { [hits |-> {}, ghosts |-> {}],
      [hits |-> {<<0, 4>>, <<2, 1>>}, ghosts |-> {1}],
      [hits |-> (0..8) \X (0..(steps_per_bar * bars - 1)),
       ghosts |-> { j \in 0..(steps_per_bar * bars - 1) : j % 2 = 1 }] }

BeatReferenceInit ==
    /\ pc = "generate_beat"
    /\ \E genre \in BeatGenres, bars \in 1..MaxReferenceBars,
          complexity \in BeatComplexities,
          reference \in GenreReferences \cup {NoReference} :
          \E draws \in ReferenceDraws(bars) :
             beatArgs = [ genre |-> genre, tempo |-> 120, bars |-> bars,
                          complexity |-> complexity, reference |-> reference,
                          draws |-> draws ]
    /\ beatPattern = << >>
    /\ IdleExcept("beat")

GenerateBeatDrawn ==
    /\ pc = "generate_beat"
    /\ beatPattern' = generate_beat(beatArgs.genre, beatArgs.tempo, beatArgs.bars,
                                    beatArgs.complexity, beatArgs.reference,
                                    beatArgs.draws.hits, beatArgs.draws.ghosts)
    /\ pc' = "beat_done"
    /\ UNCHANGED beatArgs
    /\ Frame("beat")

BeatReferenceNext == GenerateBeatDrawn

SpecBeatReference == BeatReferenceInit /\ [][BeatReferenceNext]_vars

\* The reference without its genre.
WithoutGenre(reference) ==
    [ f \in DOMAIN reference \ {"genre"} |-> reference[f] ]

\* The grid generate builds for a genre with the call's other arguments and
\* draws, the tempo being the reference's when it has one.
GridBuiltFor(genre) ==
    generate_beat(genre, ref_get(beatArgs.reference, "tempo", beatArgs.tempo),
                  beatArgs.bars, beatArgs.complexity,
                  WithoutGenre(beatArgs.reference),
                  beatArgs.draws.hits, beatArgs.draws.ghosts)

\* The reference's genre in small letters.
ReferenceGenre == str_lower(beatArgs.reference["genre"])

\* C20 as claimed: with a reference that carries a genre the grid is the one
\* of the reference's genre, whatever the genre argument and the reference's
\* genre are.
C20_ReferenceGenreAlwaysUsed ==
    (pc = "beat_done" /\ "genre" \in DOMAIN beatArgs.reference) =>
        beatPattern = GridBuiltFor(ReferenceGenre)

\* C20: with a reference that carries a genre the grid is the one of the
\* reference's genre when that genre, in small letters, is one of the four
\* template genres, and the one of the genre argument otherwise; the tempo,
\* the argument's or the reference's, does not change the grid.
C20_ReferenceGenreUsedIfTemplate ==
    (pc = "beat_done" /\ "genre" \in DOMAIN beatArgs.reference) =>
        /\ beatPattern
              = GridBuiltFor(IF ReferenceGenre \in {"hip-hop", "rock", "jazz", "electronic"}
                             THEN ReferenceGenre ELSE beatArgs.genre)
        /\ beatPattern
              = generate_beat(beatArgs.genre, 0, beatArgs.bars, beatArgs.complexity,
                              beatArgs.reference, beatArgs.draws.hits,
                              beatArgs.draws.ghosts)

\* C20's case: a rock call with the reference genre "Jazz" returned the jazz
\* grid: the ride sounds on step 0, the hi-hat of rock is silent.
C20_Witness ==
    /\ pc = "beat_done"
    /\ beatArgs.genre = "rock"
    /\ beatArgs.reference = [genre |-> "Jazz", tempo |-> 90]
    /\ beatArgs.draws.hits = {}
    /\ beatPattern[5][0] = 10
    /\ beatPattern[2][0] = 0

---------------------------------------------------------------------------
(* SpecDurations: one call of MelodyGenerator._generate_durations, an      *)
(* iteration of its while loop at a time.                                  *)

MaxDurBars == 32
MaxRhythmTape == 2

\* The tapes of draws of length 1..maxlen over n patterns.
Tapes(n, maxlen) == UNION { [1..l -> 1..n] : l \in 1..maxlen }

\* "pop" has no rhythm patterns of its own.
DurReferences ==
    { NoReference } \cup
    { [genre |-> g] : g \in {"jazz", "electronic", "hip-hop", "rock", "pop"} }

DurInit ==
    /\ pc = "durations_loop"
    /\ \E bars \in 0..MaxDurBars, reference \in DurReferences :
          \E tape \in Tapes(Len(durations_patterns(reference)), MaxRhythmTape) :
             durArgs = [bars |-> bars, reference |-> reference, tape |-> tape]
    /\ durState = [durations |-> << >>, current_beat |-> 0, attempts |-> 0]
    /\ IdleExcept("durations")

DurTotalBeats == beats_per_bar * durArgs.bars * beat_unit

\* One iteration of "while current_beat < total_beats and attempts < max_attempts"
DrawPattern ==
    /\ pc = "durations_loop"
    /\ durState.current_beat < DurTotalBeats
    /\ durState.attempts < max_attempts
    /\ LET rhythm == durations_patterns(durArgs.reference)
                       [drawn_index(durArgs.tape, durState.attempts)]
           st == durations_for_pattern(
                     [durations |-> durState.durations,
                      current_beat |-> durState.current_beat], rhythm, 1,
                     DurTotalBeats)
       IN  durState' = [durations |-> st.durations,
                        current_beat |-> st.current_beat,
                        attempts |-> durState.attempts + 1]
    /\ UNCHANGED <<pc, durArgs>>
    /\ Frame("durations")

\* The loop's exit, the fallback and the return.
ReturnDurations ==
    /\ pc = "durations_loop"
    /\ ~(durState.current_beat < DurTotalBeats /\ durState.attempts < max_attempts)
    /\ durState' = [durState EXCEPT
                      !.durations = durations_or_fallback(@, durArgs.bars)]
    /\ pc' = "durations_returned"
    /\ UNCHANGED durArgs
    /\ Frame("durations")

DurNext == DrawPattern \/ ReturnDurations

SpecDurations == DurInit /\ [][DurNext]_vars

\* C3 as stated: for bars in 1..32, every genre's patterns and every sequence
\* of draws, the durations returned sum to bars * 4 beats, within one slot (a
\* slot is at most one beat) and never beyond the bar boundary.
C3_DurationsFillBars ==
    (pc = "durations_returned" /\ durArgs.bars >= 1) =>
        /\ sum_list(durState.durations) <= DurTotalBeats
        /\ sum_list(durState.durations) >= DurTotalBeats - beat_unit

---------------------------------------------------------------------------
(* SpecMelody: one call of MelodyGenerator.generate.                       *)

MaxMelodyBars == 2
MaxMelodyTape == 1
MaxMoveTape == 1

\* "H" is no key and "blues" no scale of the tables.  A chord progression is
\* absent, a template of the suggester, or holds an element that is no string.
MelodyKeys   == {"C", "B", "H"}
MelodyScales == {"major", "locrian", "blues"}
MelodyChords == { << >>, <<"I", "V", "vi", "IV">>, <<"I", PyNone>> }
MelodyReferences == { NoReference, [genre |-> "electronic"] }

\* The draws the melody's tapes are made of: every step and two of the leaps.
MelodyMoves ==
    { m \in Moves : m.kind = "step" \/ <<m.direction, m.interval>> \in {<<0 - 1, 8>>, <<1, 5>>} }

MoveTapes(maxlen) == UNION { [1..l -> MelodyMoves] : l \in 1..maxlen }

MelodyInit ==
    /\ pc = "generate_melody"
    /\ \E key \in MelodyKeys, scale \in MelodyScales, bars \in 1..MaxMelodyBars,
          chord_progression \in MelodyChords, reference \in MelodyReferences :
          \E tape \in Tapes(Len(durations_patterns(reference)), MaxMelodyTape),
             moves \in MoveTapes(MaxMoveTape) :
             melodyArgs = [ key |-> key, scale |-> scale, tempo |-> 120,
                            bars |-> bars, chord_progression |-> chord_progression,
                            reference |-> reference, tape |-> tape, moves |-> moves ]
    /\ melody = << >>
    /\ IdleExcept("melody")

GenerateMelody ==
    /\ pc = "generate_melody"
    /\ melody' = generate_melody(melodyArgs.key, melodyArgs.scale, melodyArgs.tempo,
                                 melodyArgs.bars, melodyArgs.chord_progression,
                                 melodyArgs.reference, melodyArgs.tape,
                                 melodyArgs.moves)
    /\ pc' = "melody_done"
    /\ UNCHANGED melodyArgs
    /\ Frame("melody")

MelodyNext == GenerateMelody

SpecMelody == MelodyInit /\ [][MelodyNext]_vars

\* C2: the returned notes and durations have the same length and every pitch
\* lies in [0, 127], on the normal and on the fallback path.
C2_NotesMatchDurations ==
    pc = "melody_done" =>
        /\ Len(melody.notes) = Len(melody.durations)
        /\ \A k \in 1..Len(melody.notes) :
              melody.notes[k] >= 0 /\ melody.notes[k] <= 127

\* C2's case: a two-bar call took the fallback path.
C2_Witness ==
    /\ pc = "melody_done"
    /\ melodyArgs.bars = 2
    /\ melodyArgs.chord_progression = <<"I", PyNone>>
    /\ Len(melody.notes) = 16
    /\ melody.notes[16] = 62

\* The key and the scale the claim says a call is generated in.
KeyInUse   == IF melodyArgs.key \in {"C", "C#", "D", "D#", "E", "F", "F#", "G",
                                     "G#", "A", "A#", "B"}
              THEN melodyArgs.key ELSE "C"
ScaleInUse == IF melodyArgs.scale \in {"major", "minor", "dorian", "phrygian",
                                       "lydian", "mixolydian", "aeolian", "locrian"}
              THEN melodyArgs.scale ELSE "major"

\* An internal step of the call fails: the chord progression holds an element
\* that is no string.
StepFails == \E k \in DOMAIN melodyArgs.chord_progression :
                melodyArgs.chord_progression[k] = PyNone

\* C17: a call with bars >= 1 always returns a melody.  With an unknown key or
\* scale its notes and durations are those of the same call in C or in major.
\* When an internal step fails it returns the phrase 60 62 64 65 67 65 64 62
\* once per bar, every duration 0.5: 8 * bars notes, total_duration 4 * bars.
C17_FallbackNeverRaises ==
    (pc = "melody_done" /\ melodyArgs.bars >= 1) =>
        /\ DOMAIN melody = {"notes", "durations", "key", "scale", "tempo",
                            "total_duration"}
        /\ LET same == generate_melody(KeyInUse, ScaleInUse, melodyArgs.tempo,
                           melodyArgs.bars, melodyArgs.chord_progression,
                           melodyArgs.reference, melodyArgs.tape, melodyArgs.moves)
           IN  melody.notes = same.notes /\ melody.durations = same.durations
        /\ StepFails =>
              /\ Len(melody.notes) = 8 * melodyArgs.bars
              /\ \A k \in 1..Len(melody.notes) :
                    melody.notes[k] = <<60, 62, 64, 65, 67, 65, 64, 62>>[((k - 1) % 8) + 1]
              /\ melody.durations = [ k \in 1..(8 * melodyArgs.bars) |-> 2 ]
              /\ melody.total_duration = 4 * beat_unit * melodyArgs.bars

\* C17's case: a call in the unknown key "H" and the unknown scale "blues"
\* whose chord lookup failed returned the two-bar fallback.
C17_Witness ==
    /\ pc = "melody_done"
    /\ melodyArgs.key = "H"
    /\ melodyArgs.scale = "blues"
    /\ melodyArgs.bars = 2
    /\ StepFails
    /\ melody.key = "H"
    /\ melody.total_duration = 8 * beat_unit
    /\ melody.notes[9] = 60

---------------------------------------------------------------------------
(* SpecPhrase: one call of MelodyGenerator.generate on its normal path,    *)
(* long enough for phrase ends and for strong beats inside the melody.     *)

MaxPhraseBars == 2
MaxPhraseMoves == 2

\* The root of B is the highest of the table; locrian has the root as its
\* only stable tone.
PhraseKeys   == {"C", "F", "B"}
PhraseScales == {"major", "locrian", "lydian"}

\* No progression, and two templates of the suggester.
PhraseChords == { << >>, <<"I", "V", "vi", "IV">>, <<"i", "iv", "i", "V">> }

\* The draws of a phrase: every step and the two leaps of eight semitones.
PhraseMoves == { m \in Moves : m.kind = "step" \/ m.interval = 8 }

PhraseTapes(maxlen) == UNION { [1..l -> PhraseMoves] : l \in 1..maxlen }

\* The rhythm of a call is one drawn pattern, repeated.
PhraseInit ==
    /\ pc = "generate_melody"
    /\ \E key \in PhraseKeys, scale \in PhraseScales, bars \in 1..MaxPhraseBars,
          chord_progression \in PhraseChords :
          \E tape \in [1..1 -> 1..Len(durations_patterns(NoReference))],
             moves \in PhraseTapes(MaxPhraseMoves) :
             melodyArgs = [ key |-> key, scale |-> scale, tempo |-> 120,
                            bars |-> bars, chord_progression |-> chord_progression,
                            reference |-> NoReference, tape |-> tape, moves |-> moves ]
    /\ melody = << >>
    /\ IdleExcept("melody")

SpecPhrase == PhraseInit /\ [][MelodyNext]_vars

\* The root and the in-range scale set of the call.
RootOfCall  == note_to_midi(melodyArgs.key)
ScaleOfCall == extended_scale(RootOfCall, melodyArgs.scale)

\* The notes of the call before the post-process.
BeforeSmoothing ==
    melody_loop(<< >>, 0, Len(melody.durations),
                starting_note(ScaleOfCall, RootOfCall), ScaleOfCall,
                melodyArgs.chord_progression, RootOfCall, melodyArgs.moves)

\* C21: in a returned melody the note of every phrase-end slot (index i with
\* (i + 1) mod 8 = 0) is a stable tone: (note - root) mod 12 is 0, 4 or 7,
\* after the leap smoothing too.
C21_PhraseEndsStable ==
    pc = "melody_done" =>
        \A i \in 0..(Len(melody.notes) - 1) :
            ((i + 1) % 8 = 0) =>
                (melody.notes[i + 1] - RootOfCall) % 12 \in {0, 4, 7}

\* C21's case: a melody with two phrase ends, the first inside the melody,
\* in which the post-process replaced a note.
C21_Witness ==
    /\ pc = "melody_done"
    /\ Len(melody.notes) >= 16
    /\ melodyArgs.scale = "locrian"
    /\ melody.notes # BeforeSmoothing
    /\ (melody.notes[8] - RootOfCall) % 12 = 0
    /\ (melody.notes[16] - RootOfCall) % 12 = 0

\* The in-scale tones of the chord active at index i.
ValidChordNotes(i) ==
    LET progression == melodyArgs.chord_progression
        chord_notes == get_chord_notes(progression[((i \div 4) % Len(progression)) + 1],
                                       RootOfCall)
        in_scale(n) == list_contains(ScaleOfCall, n)
    IN  SelectSeq(chord_notes, in_scale)

\* The strong-beat slots the claim covers.
StrongBeats ==
    { i \in 0..(Len(melody.notes) - 1) :
        /\ i % 4 = 0
        /\ (i + 1) % 8 # 0
        /\ Len(melodyArgs.chord_progression) > 0
        /\ Len(ValidChordNotes(i)) > 0 }

PitchClasses(notes) == { notes[k] % 12 : k \in 1..Len(notes) }

\* C22 as stated: the returned note of every strong-beat slot that is no
\* phrase end is a chord tone of the active chord, after the leap smoothing.
C22_StrongBeatsAreChordTones ==
    pc = "melody_done" =>
        \A i \in StrongBeats :
            melody.notes[i + 1] % 12 \in PitchClasses(ValidChordNotes(i))

\* The chord tone the loop snaps to at index i, read from the returned notes.
SnappedTone(i) ==
    nearest(ValidChordNotes(i),
            IF i = 0 THEN starting_note(ScaleOfCall, RootOfCall)
            ELSE melody.notes[i])

\* C22 amended: the returned note of such a slot is the in-scale chord tone
\* nearest the note before it, unless that tone lies more than 12 semitones
\* from the note before and more than 7 from the note after: then it is the
\* tone itself or the scale tone nearest the midpoint of the two neighbours.
C22_StrongBeatsSnappedOrSmoothed ==
    pc = "melody_done" =>
        \A i \in StrongBeats :
            \/ melody.notes[i + 1] = SnappedTone(i)
            \/ /\ 0 < i
               /\ i < Len(melody.notes) - 1
               /\ Abs(SnappedTone(i) - melody.notes[i]) > 12
               /\ Abs(melody.notes[i + 2] - SnappedTone(i)) > 7
               /\ melody.notes[i + 1]
                    = nearest(ScaleOfCall,
                              (melody.notes[i] + melody.notes[i + 2]) \div 2)

\* C22's case: a strong-beat slot inside the melody holds the midpoint tone
\* instead of the chord tone, and another holds its chord tone.
C22_Witness ==
    /\ pc = "melody_done"
    /\ \E i \in StrongBeats :
          /\ i > 0
          /\ melody.notes[i + 1] # SnappedTone(i)
          /\ melody.notes[i + 1] % 12 \notin PitchClasses(ValidChordNotes(i))
    /\ \E i \in StrongBeats : i > 0 /\ melody.notes[i + 1] = SnappedTone(i)

---------------------------------------------------------------------------
(* WholeSongGenerator: generate_whole_song, then                           *)
(* generate_arrangement_variations on the song it returned, as             *)
(* app.generate_whole_song calls them.                                     *)

MaxVariations == 3

SongStyles == {"pop", "rock", "hip-hop", "jazz", "electronic", "folk"}

\* Tempi dividing 240 * 8: every section lasts a whole number of seconds.
SongTempos == {96, 120, 240}

SongDurations == {0 - 5, 0, 16, 32, 180}

\* The draws of one request: the beats' hits, the substitutions of the
\* tension variants, the rhythm patterns and the melodic moves.
SongDraws ==
    { [ hits_all |-> FALSE, tension |-> <<0, 0, 0, 0>>, tape |-> <<1>>,
        moves |-> << [kind |-> "step", direction |-> 1, interval |-> 0] >> ],
      [ hits_all |-> TRUE, tension |-> <<1, 1, 1, 1>>, tape |-> <<3>>,
        moves |-> << [kind |-> "leap", direction |-> 0 - 1, interval |-> 8] >> ],
      [ hits_all |-> FALSE, tension |-> <<2, 0, 2, 1>>, tape |-> <<2>>,
        moves |-> << [kind |-> "step", direction |-> 0 - 1, interval |-> 0] >> ] }

SongInit ==
    /\ pc = "generate_whole_song"
    /\ \E style \in SongStyles, tempo \in SongTempos,
          total_duration \in SongDurations, draws \in SongDraws :
          songArgs = [ style |-> style, tempo |-> tempo, key |-> "C",
                       total_duration |-> total_duration, draws |-> draws ]
    /\ songHeap = << >>
    /\ baseSong = 0
    /\ songVariations = [num_variations |-> 0, variations |-> << >>]
    /\ IdleExcept("song")

GenerateWholeSong ==
    /\ pc = "generate_whole_song"
    /\ \E returned \in { generate_whole_song(songHeap, songArgs.style,
                              songArgs.tempo, songArgs.key,
                              songArgs.total_duration, songArgs.draws) } :
          songHeap' = returned.heap /\ baseSong' = returned.song
    /\ pc' = "generate_arrangement_variations"
    /\ UNCHANGED <<songArgs, songVariations>>
    /\ Frame("song")

GenerateArrangementVariations ==
    /\ pc = "generate_arrangement_variations"
    /\ \E num_variations \in 0..MaxVariations :
          \E returned \in { generate_arrangement_variations(songHeap, baseSong,
                                 num_variations, songArgs.draws) } :
              /\ songHeap' = returned.heap
              /\ songVariations' = [ num_variations |-> num_variations,
                                     variations |-> returned.variations ]
    /\ pc' = "variations_done"
    /\ UNCHANGED <<songArgs, baseSong>>
    /\ Frame("song")

SongNext == GenerateWholeSong \/ GenerateArrangementVariations

SpecSong == SongInit /\ [][SongNext]_vars

\* The song dictionary of a reference and the list of its section
\* dictionaries.
SongOf(ref) == songHeap[ref]
SectionsOf(ref) ==
    [ k \in 1..Len(songHeap[songHeap[ref].sections]) |->
        songHeap[songHeap[songHeap[ref].sections][k]] ]

SongReturned == pc \in {"generate_arrangement_variations", "variations_done"}

\* C4 as stated: the returned total_duration is at least the requested one.
C4_TotalAtLeastRequested ==
    SongReturned => SongOf(baseSong).total_duration >= songArgs.total_duration

\* C4, amended: the returned total_duration is at least the requested one
\* unless the style's template is used up, and then the song holds every
\* section of the template.
C4_TotalAtLeastRequestedOrTemplateUsedUp ==
    SongReturned =>
        \/ SongOf(baseSong).total_duration >= songArgs.total_duration
        \/ Len(SectionsOf(baseSong)) = Len(SongOf(baseSong).structure)

\* C4's case: sections were added until the last one overshot the request.
C4_Witness ==
    /\ SongReturned
    /\ Len(SectionsOf(baseSong)) >= 2
    /\ Len(SectionsOf(baseSong)) < Len(SongOf(baseSong).structure)
    /\ SongOf(baseSong).total_duration > songArgs.total_duration

\* C5: the first section starts at 0, each later one where the one before it
\* ends, each lasts bars * 240 / tempo seconds, and total_duration is the end
\* of the last.
C5_GapFreeTimeline ==
    SongReturned =>
        LET sections == SectionsOf(baseSong)
            n == Len(sections)
        IN  /\ n >= 1
            /\ sections[1].start_time = 0
            /\ \A k \in 1..(n - 1) :
                  sections[k + 1].start_time
                      = sections[k].start_time + sections[k].duration
            /\ \A k \in 1..n :
                  sections[k].duration * songArgs.tempo = sections[k].bars * 240
            /\ SongOf(baseSong).total_duration
                  = sections[n].start_time + sections[n].duration

\* C5's case: a song of three sections or more at 2.5 seconds a bar.
C5_Witness ==
    /\ SongReturned
    /\ songArgs.tempo = 96
    /\ Len(SectionsOf(baseSong)) >= 3
    /\ SectionsOf(baseSong)[3].start_time = 60

\* The template the claim names for a style, and the time its first m
\* sections last.
ClaimedTemplate(style) ==
    IF style \in {"pop", "rock", "hip-hop", "jazz", "electronic"}
    THEN song_structures(style) ELSE song_structures("pop")

RECURSIVE CumulativeDuration(_, _, _)
CumulativeDuration(template, m, tempo) ==
    IF m = 0 THEN 0
    ELSE CumulativeDuration(template, m - 1, tempo)
         + (section_configs(template[m]).bars * 240) \div tempo

SongTypes == [ k \in 1..Len(SectionsOf(baseSong)) |-> SectionsOf(baseSong)[k].type ]

Reaching(template) ==
    { m \in 1..Len(template) :
        CumulativeDuration(template, m, songArgs.tempo) >= songArgs.total_duration }

\* C6 as stated: the types are the shortest non-empty prefix of the template
\* whose cumulative duration reaches total_duration.
C6_ShortestReachingPrefix ==
    SongReturned =>
        LET template == ClaimedTemplate(songArgs.style)
            n == Len(SongTypes)
        IN  /\ n >= 1
            /\ SongTypes = list_prefix(template, n)
            /\ n \in Reaching(template)
            /\ \A m \in Reaching(template) : n <= m

\* C6, amended: the types are the shortest non-empty prefix of the template
\* whose cumulative duration reaches total_duration, or the whole template
\* when its cumulative duration does not reach it.
C6_ShortestReachingPrefixOrWholeTemplate ==
    SongReturned =>
        LET template == ClaimedTemplate(songArgs.style)
            n == Len(SongTypes)
        IN  /\ n >= 1
            /\ n <= Len(template)
            /\ SongTypes = list_prefix(template, n)
            /\ IF Reaching(template) = {} THEN n = Len(template)
               ELSE n \in Reaching(template) /\ \A m \in Reaching(template) : n <= m

\* C6's case: an unknown style gets a proper prefix of the pop template.
C6_Witness ==
    /\ SongReturned
    /\ songArgs.style = "folk"
    /\ SongTypes = <<"intro", "verse", "chorus">>

\* C6's other case: a request of 0 seconds or less still gets one section.
C6_WitnessNoDuration ==
    /\ SongReturned
    /\ songArgs.total_duration <= 0
    /\ Len(SongTypes) = 1

\* C7: every variation has as many sections as the base song, each equal to
\* the base's in type, start_time, duration, bars, melody, chords and energy;
\* of the song's own fields only style, variation_id and sections differ.
C7_VariationsKeepAllButBeats ==
    pc = "variations_done" =>
        \A i \in 1..Len(songVariations.variations) :
            LET variation == songVariations.variations[i]
                base == SectionsOf(baseSong)
                modified == SectionsOf(variation)
            IN  /\ Len(modified) = Len(base)
                /\ \A k \in 1..Len(base) :
                      /\ modified[k].type = base[k].type
                      /\ modified[k].start_time = base[k].start_time
                      /\ modified[k].duration = base[k].duration
                      /\ modified[k].bars = base[k].bars
                      /\ modified[k].energy = base[k].energy
                      /\ songHeap[modified[k].melody] = songHeap[base[k].melody]
                      /\ songHeap[modified[k].chords] = songHeap[base[k].chords]
                /\ DOMAIN SongOf(variation)
                      = DOMAIN SongOf(baseSong) \cup {"variation_id"}
                /\ \A f \in DOMAIN SongOf(baseSong) \ {"style", "sections"} :
                      SongOf(variation)[f] = SongOf(baseSong)[f]
                /\ SongOf(variation).variation_id = i

\* C7's case: three variations of a song of several sections, the first with
\* another beat than the base in its first section.
C7_Witness ==
    /\ pc = "variations_done"
    /\ Len(songVariations.variations) = 3
    /\ Len(SectionsOf(baseSong)) >= 2
    /\ SongOf(songVariations.variations[1]).style # SongOf(baseSong).style
    /\ SectionsOf(songVariations.variations[1])[1].beat_pattern
          # SectionsOf(baseSong)[1].beat_pattern

\* C8 as stated, its second half: no melody record and no chord list of a
\* variation's section is the object the base song's section or another
\* variation's section holds.
C8_NoSharedObjects ==
    pc = "variations_done" =>
        LET songs == <<baseSong>> \o songVariations.variations
        IN  \A a, b \in 1..Len(songs) :
               a # b =>
                 \A k \in 1..Len(SectionsOf(baseSong)) :
                    /\ SectionsOf(songs[a])[k].melody # SectionsOf(songs[b])[k].melody
                    /\ SectionsOf(songs[a])[k].chords # SectionsOf(songs[b])[k].chords

\* The base progression of the call: the chords of the suggester's first
\* candidate for the style, and the list the song holds for slot i (from 0).
BaseProgression ==
    suggest(songArgs.key, songArgs.style, "happy", 4)[1].chords
SlotProgression(i) == songHeap[SongOf(baseSong).chord_progression[i + 1]]

\* The chord of a tension variant: the base chord or one of its substitutes.
TensionOf(chord) ==
    {chord} \cup { substitutions(chord)[v] : v \in 1..Len(substitutions(chord)) }

\* C23: for a template of n slots and the base progression b of 4 chords,
\* slots 0 and n-1 hold [b0, b1, b0, b1], every other odd slot holds b, every
\* even interior slot a 4-chord list whose position k is b[k] or a substitute
\* of b[k]; section i uses the progression of slot i and the base list keeps
\* its value, through the variations too.
C23_SlotProgressions ==
    SongReturned =>
        LET b == BaseProgression
            n == Len(SongOf(baseSong).structure)
        IN  /\ Len(b) = 4
            /\ Len(SongOf(baseSong).chord_progression) = n
            /\ \A i \in 0..(n - 1) :
                  IF i = 0 \/ i = n - 1
                  THEN SlotProgression(i) = <<b[1], b[2], b[1], b[2]>>
                  ELSE IF i % 2 = 1
                  THEN SlotProgression(i) = b
                  ELSE /\ Len(SlotProgression(i)) = 4
                       /\ \A k \in 1..4 : SlotProgression(i)[k] \in TensionOf(b[k])
            /\ \A i \in 0..(Len(SectionsOf(baseSong)) - 1) :
                  SectionsOf(baseSong)[i + 1].chords
                     = SongOf(baseSong).chord_progression[i + 1]
            /\ songHeap[1] = b

\* C23's case: a pop song of at least five sections whose choruses got the
\* variant I6 V vim7 IVMaj7 of I V vi IV, after its variations were made.
C23_Witness ==
    /\ pc = "variations_done"
    /\ songArgs.style = "pop"
    /\ Len(songVariations.variations) >= 1
    /\ Len(SectionsOf(baseSong)) >= 5
    /\ BaseProgression = <<"I", "V", "vi", "IV">>
    /\ songHeap[SectionsOf(baseSong)[3].chords] = <<"I6", "V", "vim7", "IVMaj7">>
    /\ songHeap[SectionsOf(baseSong)[4].chords] = <<"I", "V", "vi", "IV">>
    /\ songHeap[SectionsOf(baseSong)[1].chords] = <<"I", "V", "I", "V">>

---------------------------------------------------------------------------
(* SpecCombine: one call of AudioCombiner.combine on two loaded tracks.    *)

MaxTrackLen == 3

TrackSamples == {0 - 10, 0, 10}
Tracks == UNION { [1..n -> TrackSamples] : n \in 0..MaxTrackLen }

\* mix_levels: None, both levels given, the melody's level left out.
MixLevels == { NoReference, [beat |-> 10, melody |-> 5], [beat |-> 5] }

CombineInit ==
    /\ pc = "combine"
    /\ combineArgs \in [ beat_audio : Tracks, melody_audio : Tracks,
                         mix_levels : MixLevels ]
    /\ combined = << >>
    /\ IdleExcept("combine")

Combine ==
    /\ pc = "combine"
    /\ combined' = combine(combineArgs.beat_audio, combineArgs.melody_audio,
                           combineArgs.mix_levels)
    /\ pc' = "combine_done"
    /\ UNCHANGED combineArgs
    /\ Frame("combine")

CombineNext == Combine

SpecCombine == CombineInit /\ [][CombineNext]_vars

\* Equality of two rationals num / den with positive denominators.
SameRational(x, y) == x.num * y.den = y.num * x.den

\* The level of a track as the caller gave it, in tenths.
LevelOf(track) ==
    CASE track \in DOMAIN combineArgs.mix_levels -> combineArgs.mix_levels[track]
      [] track = "beat" -> 7
      [] OTHER -> 8

\* The sum, in hundredths, that position i (from 0) of the output stands for
\* when each track contributes its sample at i modulo its own length.
LoopedSum(i) ==
    combineArgs.beat_audio[(i % Len(combineArgs.beat_audio)) + 1] * LevelOf("beat")
    + combineArgs.melody_audio[(i % Len(combineArgs.melody_audio)) + 1]
      * LevelOf("melody")

\* C11: for two tracks of lengths m <= n, m >= 1, the output has exactly n
\* samples; sample i is made of the longer track's sample i (none is cut off)
\* and of the shorter track's sample i mod m.
C11_ShorterTrackLooped ==
    (pc = "combine_done" /\ Len(combineArgs.beat_audio) >= 1
                         /\ Len(combineArgs.melody_audio) >= 1) =>
        LET n == Max2(Len(combineArgs.beat_audio), Len(combineArgs.melody_audio))
            peak == np_max_abs([ i \in 1..n |-> LoopedSum(i - 1) ])
        IN  /\ ~combined.raised
            /\ Len(combined.samples) = n
            /\ \A i \in 0..(n - 1) :
                  SameRational(combined.samples[i + 1],
                               IF peak > 0
                               THEN [num |-> LoopedSum(i) * 9, den |-> peak * 10]
                               ELSE [num |-> 0, den |-> 1])

\* C11's case: a track of two samples looped under one of three, so that the
\* output's third sample holds the shorter track's first sample again.
C11_Witness ==
    /\ pc = "combine_done"
    /\ combineArgs.beat_audio = <<10, 0>>
    /\ combineArgs.melody_audio = <<0, 0, 0>>
    /\ combineArgs.mix_levels = [beat |-> 10, melody |-> 5]
    /\ Len(combined.samples) = 3
    /\ combined.samples[1].num > 0
    /\ combined.samples[2].num = 0
    /\ combined.samples[3].num > 0

\* The soft-knee compression of the claim with the threshold 0.7 and the
\* ratio 4 : 1, on a sample in hundredths; the value is in 1/400.
ClaimedCompression(x) ==
    IF Abs(x) > 70
    THEN (IF x > 0 THEN 1 ELSE 0 - 1) * (4 * 70 + (Abs(x) - 70))
    ELSE 4 * x

\* C12: the written samples are the peak-normalised samples of the mix in
\* which every sample above the threshold in magnitude was replaced by
\* sign(x) * (threshold + (|x| - threshold) / ratio) and the others kept.
C12_CompressedBeforeNormalizing ==
    (pc = "combine_done" /\ ~combined.raised) =>
        LET n == Len(combined.samples)
            compressed == [ i \in 1..n |-> ClaimedCompression(LoopedSum(i - 1)) ]
            peak == np_max_abs(compressed)
        IN  \A i \in 1..n :
               SameRational(combined.samples[i],
                            IF peak > 0
                            THEN [num |-> compressed[i] * 9, den |-> peak * 10]
                            ELSE [num |-> 0, den |-> 1])


---------------------------------------------------------------------------
(* SpecRender: an AudioProcessor is constructed and pattern_to_audio is    *)
(* called twice on it with the same grid and tempo.                        *)

MaxRenderSteps == 2
MaxRenderHits == 2

\* The two arrays np.random.normal may return to a call.
NoiseArrays == {1, 2}

\* Grids of 9 rows with at most MaxRenderHits cells that sound, at 0.5 or 1.0,
\* in the rows of the kick, the snare, the open hi-hat and the low tom.
RenderPatterns ==
    LET cells == {0, 1, 3, 8} \X (0..(MaxRenderSteps - 1))
        no_cell == <<9, 0>>
        hit_sets == { { f[k] : k \in 1..MaxRenderHits } \ {no_cell} :
                        f \in [1..MaxRenderHits -> cells \cup {no_cell}] }
    IN  UNION { { [ i \in 0..8 |-> [ j \in 0..(MaxRenderSteps - 1) |->
                      IF <<i, j>> \in h THEN v[<<i, j>>] ELSE 0 ] ]
                  : v \in [h -> {5, 10}] }
                : h \in hit_sets }

\* AudioProcessor.__init__ stores the parameters of the drum types and makes
\* no sound.
RenderInit ==
    /\ pc = "pattern_to_audio"
    /\ renderArgs \in [ pattern : RenderPatterns, tempo : {0, 120} ]
    /\ drumSoundCalls = 0
    /\ rendered = << >>
    /\ IdleExcept("render")

PatternToAudio ==
    /\ pc = "pattern_to_audio"
    /\ Len(rendered) < 2
    /\ \E noises \in [1..MaxRenderHits -> NoiseArrays] :
          \E written \in { pattern_to_audio(renderArgs.pattern, renderArgs.tempo,
                                            noises) } :
              /\ rendered' = Append(rendered, written)
              /\ drumSoundCalls' = drumSoundCalls + Len(written.overlays)
    /\ pc' = IF Len(rendered) = 1 THEN "render_done" ELSE pc
    /\ UNCHANGED renderArgs
    /\ Frame("render")

RenderNext == PatternToAudio

SpecRender == RenderInit /\ [][RenderNext]_vars

\* C13: no drum sound is synthesized after the construction of the processor,
\* and the two renders of the same grid with the same processor are the same
\* array.
C13_VoicesSynthesizedOnce ==
    pc = "render_done" =>
        /\ drumSoundCalls = 0
        /\ rendered[1] = rendered[2]


---------------------------------------------------------------------------
(* SpecMidi: one call of AudioProcessor.melody_to_midi.                    *)

MaxMidiLen == 3

\* Pitches inside and outside 0..127; durations of -0.5, 0, 0.5 and 1 beat.
MidiNotes     == {0 - 1, 60, 127, 128}
MidiDurations == {0 - 2, 0, 2, 4}
MidiTempos    == {120}

MidiInit ==
    /\ pc = "melody_to_midi"
    /\ \E n \in 0..MaxMidiLen, d \in 0..MaxMidiLen :
          midiArgs \in [ notes : [1..n -> MidiNotes],
                         durations : [1..d -> MidiDurations],
                         tempo : MidiTempos ]
    /\ midiTrack = << >>
    /\ midiAudio = << >>
    /\ IdleExcept("midi")

MelodyToMidi ==
    /\ pc = "melody_to_midi"
    /\ midiTrack' = melody_to_midi(midiArgs.notes, midiArgs.durations,
                                   midiArgs.tempo)
    /\ pc' = "midi_done"
    /\ UNCHANGED <<midiArgs, midiAudio>>
    /\ Frame("midi")

MidiNext == MelodyToMidi

SpecMidi == MidiInit /\ [][MidiNext]_vars

\* The number of notes the call is to convert.
Converted == Min2(Len(midiArgs.notes), Len(midiArgs.durations))

\* The notes to convert are pitches of 0..127 and none of their durations is
\* negative.
ConvertedAreNotes ==
    \A k \in 1..Converted :
        /\ midiArgs.notes[k] \in 0..127
        /\ midiArgs.durations[k] >= 0

\* C14: given notes (pitches of 0..127) and durations (not negative) of
\* different lengths, the call does not raise and converts exactly
\* min(len(notes), len(durations)) notes: after the program change the track
\* holds, for each k below that length, one note-on and one note-off of
\* notes[k], the note-off after the ticks of durations[k].
C14_TruncatedToShorter ==
    (pc = "midi_done" /\ Len(midiArgs.notes) # Len(midiArgs.durations)
                      /\ ConvertedAreNotes) =>
        /\ ~midiTrack.raised
        /\ Len(midiTrack.track) = 1 + 2 * Converted
        /\ \A k \in 1..Converted :
              /\ midiTrack.track[2 * k].type = "note_on"
              /\ midiTrack.track[2 * k].note = midiArgs.notes[k]
              /\ midiTrack.track[2 * k + 1].type = "note_off"
              /\ midiTrack.track[2 * k + 1].note = midiArgs.notes[k]
              /\ midiTrack.track[2 * k + 1].time
                    = (midiArgs.durations[k] * midiArgs.tempo * 480) \div 240

\* C14's case: three notes and two durations that differ, of which two notes
\* were converted.
C14_Witness ==
    /\ pc = "midi_done"
    /\ midiArgs.notes = <<60, 127, 60>>
    /\ midiArgs.durations = <<2, 4>>
    /\ ~midiTrack.raised
    /\ Len(midiTrack.track) = 5
    /\ midiTrack.track[3].time = 480
    /\ midiTrack.track[5].time = 960

\* min(127, max(0, pitch))
ClampedPitch(pitch) == Min2(127, Max2(0, pitch))

\* The pairs of the input whose duration is positive, in order.
RECURSIVE PositivePairs(_)
PositivePairs(k) ==
    IF k > Converted THEN << >>
    ELSE (IF midiArgs.durations[k] > 0 THEN <<k>> ELSE << >>) \o PositivePairs(k + 1)

\* C15: for any melody the call emits valid events only: it does not raise,
\* the note events are those of the notes whose duration is positive, in
\* order, each with its pitch clamped into 0..127.
C15_ClampedAndSkipped ==
    pc = "midi_done" =>
        LET kept == PositivePairs(1)
        IN  /\ ~midiTrack.raised
            /\ Len(midiTrack.track) = 1 + 2 * Len(kept)
            /\ \A m \in 1..Len(kept) :
                  /\ midiTrack.track[2 * m].note = ClampedPitch(midiArgs.notes[kept[m]])
                  /\ midiTrack.track[2 * m + 1].note
                        = ClampedPitch(midiArgs.notes[kept[m]])
                  /\ midiTrack.track[2 * m + 1].time > 0

---------------------------------------------------------------------------
(* SpecMidiAudio: a melody rendered at a tempo, melody_to_midi followed by *)
(* midi_to_audio on the saved file.                                        *)

\* Pitches of the range and durations of 0.25, 0.5 and 1 beat.
AudioNotes     == {60, 64}
AudioDurations == {1, 2, 4}
AudioTempos    == {60, 120, 180}

MidiAudioInit ==
    /\ pc = "melody_to_midi"
    /\ \E n \in 1..MaxMidiLen :
          midiArgs \in [ notes : [1..n -> AudioNotes],
                         durations : [1..n -> AudioDurations],
                         tempo : AudioTempos ]
    /\ midiTrack = << >>
    /\ midiAudio = << >>
    /\ IdleExcept("midi")

MidiToAudio ==
    /\ pc = "midi_done"
    /\ ~midiTrack.raised
    /\ midiAudio' = midi_to_audio(midiTrack.track)
    /\ pc' = "audio_done"
    /\ UNCHANGED <<midiArgs, midiTrack>>
    /\ Frame("midi")

MidiAudioNext == MelodyToMidi \/ MidiToAudio

SpecMidiAudio == MidiAudioInit /\ [][MidiAudioNext]_vars

\* The beats before note k, in quarter beats.
BeatsBefore(k) == sum_range(midiArgs.durations, 1, k - 1)

\* A time of the render, in 1/960 s, is the beats (in quarter beats) times
\* 60 / tempo, up to one tick (of the file or of the tempo) for each note
\* rounded so far.
WithinTicks(time, quarter_beats, rounded) ==
    Abs(time * midiArgs.tempo - quarter_beats * 15 * seconds_scale)
        <= rounded * Max2(midiArgs.tempo, 120)

\* C25 as stated: in the render of a melody at tempo T note k starts at
\* (the durations before k) * 60 / T seconds and sounds for
\* durations[k] * 60 / T seconds, up to one tick of rounding.
C25_SecondsPerBeatFollowTempo ==
    pc = "audio_done" =>
        /\ Len(midiAudio) = Len(midiArgs.notes)
        /\ \A k \in 1..Len(midiAudio) :
              /\ midiAudio[k].note = midiArgs.notes[k]
              /\ WithinTicks(midiAudio[k].start_time, BeatsBefore(k), k)
              /\ WithinTicks(midiAudio[k].duration, midiArgs.durations[k], 1)
---------------------------------------------------------------------------
(* SpecSection: the render of one section of a song by song_to_audio.  The *)
(* section is what generate_whole_song writes for its bars and tempo, with *)
(* a beat of one hit and a short melody.                                    *)

MaxSectionBars == 2
MaxSectionNotes == 2

\* Tempi for which a bar lasts a whole number of seconds.
SectionTempos == {60, 120, 240}

\* A kick or a snare on one step of the grid, at full velocity.
section_grid(bars, row, step) ==
    [ i \in 0..8 |-> [ j \in 0..(steps_per_bar * bars - 1) |->
                         IF i = row /\ j = step THEN 10 ELSE 0 ] ]

SectionInit ==
    /\ pc = "song_to_audio"
    /\ \E bars \in 1..MaxSectionBars, tempo \in SectionTempos,
          row \in {0, 1}, noise \in NoiseArrays, start_time \in {0, 8},
          n \in 1..MaxSectionNotes :
          \E step \in 0..(steps_per_bar * bars - 1),
             notes \in [1..n -> {60, 64}], durations \in [1..n -> {2, 4}] :
             sectionArgs =
               [ tempo |-> tempo, noises |-> <<noise>>,
                 section |-> [ start_time |-> start_time,
                               duration |-> section_duration(bars, tempo),
                               bars |-> bars,
                               beat_pattern |-> section_grid(bars, row, step),
                               melody |-> [ notes |-> notes,
                                            durations |-> durations ] ] ]
    /\ sectionAudio = << >>
    /\ IdleExcept("section")

SectionToAudio ==
    /\ pc = "song_to_audio"
    /\ sectionAudio' = section_to_audio(sectionArgs.section, sectionArgs.noises)
    /\ pc' = "section_done"
    /\ UNCHANGED sectionArgs
    /\ Frame("section")

SectionNext == SectionToAudio

SpecSection == SectionInit /\ [][SectionNext]_vars

\* The steps of the section's grid that carry a hit.
SectionHitSteps ==
    { j \in DOMAIN sectionArgs.section.beat_pattern[0] :
        \E i \in 0..8 : sectionArgs.section.beat_pattern[i][j] > 0 }

\* C27 as stated: in the render of a section step s sounds s * 60 / (tempo * 4)
\* seconds and note k (beats before k) * 60 / tempo seconds after the section's
\* start, the offsets of the stand-alone pattern render at that tempo, and
\* every step of the section falls inside its window.
C27_SectionAtSongTempo ==
    pc = "section_done" =>
        LET beat  == sectionAudio.audio.beat
            notes == sectionAudio.audio.melody
        IN  /\ { beat[k].step_idx : k \in 1..Len(beat) } = SectionHitSteps
            /\ \A k \in 1..Len(beat) :
                  beat[k].sample_pos
                     = samples_at_step(beat[k].step_idx, sectionArgs.tempo)
            /\ Len(notes) = Len(sectionArgs.section.melody.notes)
            /\ \A k \in 1..Len(notes) :
                  notes[k].start_sample
                     = (sum_range(sectionArgs.section.melody.durations, 1, k - 1)
                           * 15 * sample_rate) \div (beat_unit * sectionArgs.tempo)
---------------------------------------------------------------------------
(* SpecPreview: one request of suggest_harmony.  The handler renders a     *)
(* preview for each of the first three suggestions, one call of            *)
(* chords_to_audio after the other, while the clock runs.                  *)

MaxPreviewBars == 2
MaxClock == 4

PreviewInit ==
    /\ pc = "suggest_harmony"
    /\ previewArgs \in [ key : {"C"}, genre : {"pop", "jazz"},
                         mood : {"happy", "sad"}, bars : 0..MaxPreviewBars ]
    /\ clock \in 0..1
    /\ files = << >>
    /\ previews = << >>
    /\ IdleExcept("preview")

\* progressions[:3] of the request.
PreviewProgressions ==
    list_prefix(suggest(previewArgs.key, previewArgs.genre, previewArgs.mood,
                        previewArgs.bars), 3)

\* Time passes between two steps of the handler.
ClockTick ==
    /\ pc = "suggest_harmony"
    /\ clock < MaxClock
    /\ clock' = clock + 1
    /\ UNCHANGED <<pc, previewArgs, files, previews>>
    /\ Frame("preview")

\* One turn of the loop of suggest_harmony, lines 451-460; a call that
\* raises ends the request with the status 500.
PreviewChords ==
    /\ pc = "suggest_harmony"
    /\ Len(previews) < Len(PreviewProgressions)
    /\ LET prog == PreviewProgressions[Len(previews) + 1]
       IN  IF chords_to_audio_raises(prog.chords)
           THEN /\ pc' = "preview_failed"
                /\ UNCHANGED <<files, previews>>
           ELSE \E returned \in { chords_to_audio(prog.chords, clock, files) } :
                   /\ files' = returned.files
                   /\ previews' = Append(previews,
                                         [ progression |-> prog,
                                           audio_url |-> returned.output_path ])
                   /\ pc' = "suggest_harmony"
    /\ UNCHANGED <<previewArgs, clock>>
    /\ Frame("preview")

\* "return {"suggestions": previews}"
PreviewReturn ==
    /\ pc = "suggest_harmony"
    /\ Len(previews) = Len(PreviewProgressions)
    /\ pc' = "previewed"
    /\ UNCHANGED <<previewArgs, clock, files, previews>>
    /\ Frame("preview")

PreviewNext == ClockTick \/ PreviewChords \/ PreviewReturn

SpecPreview == PreviewInit /\ [][PreviewNext]_vars

\* C28 as stated: the render calls of one request write to distinct paths, so
\* every returned audio URL serves the audio rendered for its own chords.
C28_PreviewsKeepTheirAudio ==
    pc = "previewed" =>
        /\ \A i, j \in 1..Len(previews) :
              i # j => previews[i].audio_url # previews[j].audio_url
        /\ \A i \in 1..Len(previews) :
              files[previews[i].audio_url]
                 = chords_buffer(previews[i].progression.chords)
---------------------------------------------------------------------------
(* SpecDatabase: the calls of get_database and close_database of one of    *)
(* the two database modules, one call after the other.  No handler of the  *)
(* server calls them, so the calls come in any order.                      *)

MaxClients == 4

None == << >>

DatabasePcs ==
    {"database", "got_database", "get_database_raised", "closed_database"}

\* The collections get_database indexes, in the order of its awaits.
indexed_collections == <<"beats", "projects", "melodies">>

DatabaseInit ==
    /\ pc = "database"
    /\ db_module \in [ file : {"api", "models"},
                       database_name : {"music_producer", "test"} ]
    /\ client = None
    /\ database = None
    /\ opened = {}
    /\ created = 0
    /\ handle = None
    /\ indexes = {}
    /\ IdleExcept("database")

\* get_database of either module: a client and its database handle are
\* created when the global database is None, and the global is returned.
GetDatabase ==
    /\ pc \in DatabasePcs
    /\ IF database = None
       THEN /\ created < MaxClients
            /\ created' = created + 1
            /\ client' = <<created + 1>>
            /\ opened' = opened \cup {created + 1}
            /\ database' = <<created + 1, db_module.database_name>>
            /\ indexes' = indexes \cup { indexed_collections[k] : k \in 1..3 }
       ELSE UNCHANGED <<client, database, opened, created, indexes>>
    /\ handle' = database'
    /\ pc' = "got_database"
    /\ UNCHANGED db_module
    /\ Frame("database")

\* get_database when the k-th create_index raises (the server does not
\* answer): the globals were assigned before the first await and stay.
GetDatabaseRaises ==
    /\ pc \in DatabasePcs
    /\ database = None
    /\ created < MaxClients
    /\ \E k \in 1..3 :
          indexes' = indexes \cup { indexed_collections[j] : j \in 1..(k - 1) }
    /\ created' = created + 1
    /\ client' = <<created + 1>>
    /\ opened' = opened \cup {created + 1}
    /\ database' = <<created + 1, db_module.database_name>>
    /\ pc' = "get_database_raised"
    /\ UNCHANGED <<db_module, handle>>
    /\ Frame("database")

\* close_database: the module of api declares "global client, database" and
\* resets both; the module of models declares "global client" and resets
\* the client only.
CloseDatabase ==
    /\ pc \in DatabasePcs
    /\ IF client # None
       THEN /\ opened' = opened \ {client[1]}
            /\ client' = None
            /\ database' = IF db_module.file = "api" THEN None ELSE database
       ELSE UNCHANGED <<client, database, opened>>
    /\ pc' = "closed_database"
    /\ UNCHANGED <<db_module, created, handle, indexes>>
    /\ Frame("database")

DatabaseNext == GetDatabase \/ GetDatabaseRaises \/ CloseDatabase

SpecDatabase == DatabaseInit /\ [][DatabaseNext]_vars

\* C29 as stated: in both modules at most one client is open at a time, and
\* the handle that get_database returns is bound to a client that is open
\* when it is returned, also after a close_database.
C29_HandleOfOpenClient ==
    /\ Cardinality(opened) <= 1
    /\ pc = "got_database" => handle # None /\ handle[1] \in opened
---------------------------------------------------------------------------
(* SpecMix: one call of AudioCombiner.mix_multiple_tracks.  Each path      *)
(* either names no file or names a file with the given samples; the levels *)
(* are left out or given one for each path.                                *)

MaxMixTracks == 3
MaxMixLen == 2

MixSamples == {0, 10}
MixLevelValues == {30, 60}

MixInit ==
    /\ pc = "mix"
    /\ \E n \in 0..MaxMixTracks :
          \E track_paths \in
                [1..n -> [ exists : {TRUE},
                           audio : UNION { [1..l -> MixSamples] :
                                           l \in 0..MaxMixLen } ]
                         \cup {[exists |-> FALSE, audio |-> << >>]}] :
             \/ mixArgs = [ track_paths |-> track_paths, levels_given |-> FALSE,
                            mix_levels |-> << >> ]
             \/ \E mix_levels \in [1..n -> MixLevelValues] :
                   mixArgs = [ track_paths |-> track_paths, levels_given |-> TRUE,
                               mix_levels |-> mix_levels ]
    /\ mixed = << >>
    /\ IdleExcept("mix")

MixMultipleTracks ==
    /\ pc = "mix"
    /\ mixed' = mix_multiple_tracks(mixArgs.track_paths, mixArgs.levels_given,
                                    mixArgs.mix_levels)
    /\ pc' = "mix_done"
    /\ UNCHANGED mixArgs
    /\ Frame("mix")

MixNext == MixMultipleTracks

SpecMix == MixInit /\ [][MixNext]_vars

\* The level at the index i of the paths: the given one, or 1/N of the N
\* paths when none is given.
OwnLevel(i) ==
    IF mixArgs.levels_given THEN mixArgs.mix_levels[i]
    ELSE level_unit \div Len(mixArgs.track_paths)

\* Sample k of what the paths from the i-th on add to the mix when each
\* track that exists is looped and scaled by the level at its own index.
RECURSIVE OwnLevelSum(_, _)
OwnLevelSum(i, k) ==
    IF i > Len(mixArgs.track_paths) THEN 0
    ELSE (IF mixArgs.track_paths[i].exists
          THEN mixArgs.track_paths[i].audio[
                   ((k - 1) % Len(mixArgs.track_paths[i].audio)) + 1] * OwnLevel(i)
          ELSE 0)
         + OwnLevelSum(i + 1, k)

\* C30 as stated: every track that exists is mixed at the level given at its
\* own index in mix_levels (or at 1/N), whichever paths are missing.
C30_TracksKeepOwnLevel ==
    (pc = "mix_done" /\ ~mixed.raised) =>
        /\ mixed.num_tracks
             = Cardinality({ i \in DOMAIN mixArgs.track_paths :
                              mixArgs.track_paths[i].exists })
        /\ \A k \in DOMAIN mixed.mixed : mixed.mixed[k] = OwnLevelSum(1, k)

====
